---- MODULE Spec2Model ----
\* Streaming chat front end of the GenAI repository: the send operation and the
\* SSE stream reducer of the two components that own one,
\*   Chatbot.vue (handleSend / handleCancel / callApiSSE) and
\*   App.vue     (sendMessage / clearConversation).
\* Text is a sequence of tokens, so that concatenation and prefixes are real.
EXTENDS Integers, Sequences, FiniteSets, TLC

\* ------------------------------------------------------------------ bounds
MaxSends == 2   \* send operations started in one run
MaxChunks == 3  \* chunks delivered by the backend in a "stream" run
MaxPlain == 2   \* chunks delivered by the backend in a "sends" run
MaxWire == 2    \* chunks delivered by the backend in a "wire" run
MaxLoads == 2    \* responses of loadConversationMessages in a "load" run
MaxConversations == 2  \* conversations the user creates in a "conv" run
MaxText == 5    \* characters of the code of a block in a "scan" run

\* --------------------------------------------------------------- constants
Components == {"Chatbot", "App"}

QueryDone == <<"QUERY_DONE">>          \* '查詢完成'
Processing == <<"PROCESSING">>         \* '正在處理中...'
ErrorOccurred == <<"ERROR_OCCURRED">>  \* '發生錯誤'
Apology == <<"APOLOGY">>               \* '抱歉，發生了錯誤，請稍後再試。'

NoText == <<>>
Absent == <<>>
Some(x) == <<x>>

\* ------------------------------------------------------------------ chunks
\* One decoded SSE payload. form "text": JSON.parse throws on it (the end
\* marker [DONE] included), raw is the payload text; form "json": a JSON object
\* with the fields below (an absent or empty string field is NoText, an absent
\* type or status.type is "", choices stands for choices[0].delta.content and
\* delta for delta.content; suggestions is Absent or Some(array)).
JsonObject ==
    [form |-> "json", raw |-> NoText, type |-> "", content |-> NoText,
     stype |-> "", scontent |-> NoText, error |-> NoText, suggestions |-> Absent,
     choices |-> NoText, delta |-> NoText, text |-> NoText, message |-> NoText,
     reply |-> NoText]

RawText(t) == [JsonObject EXCEPT !.form = "text", !.raw = t]
Sentinel == RawText(<<"[DONE]">>)
Explanation(t) == [JsonObject EXCEPT !.type = "explanation", !.content = t]
Status(st, t) == [JsonObject EXCEPT !.type = "status", !.stype = st, !.scontent = t]
ErrorEvent(t) == [JsonObject EXCEPT !.type = "error", !.error = t]
Suggestions(items) == [JsonObject EXCEPT !.type = "suggestions", !.suggestions = Some(items)]
DoneEvent == [JsonObject EXCEPT !.type = "done"]
LegacyText(t) == [JsonObject EXCEPT !.text = t]

\* The payloads the backend may deliver in this model.
Chunks ==
    { Sentinel, RawText(<<"r">>), Explanation(<<"a">>), Status("idle", <<"s">>),
      ErrorEvent(<<"e">>), Suggestions(<<"q1">>), DoneEvent, LegacyText(<<"t">>) }

\* The payloads of a plain answer: explanation deltas and the end marker.
PlainChunks == { Explanation(<<"a">>), Sentinel }

\* A JSON object without type that carries the legacy fields from the k-th on
\* (1 choices[0].delta.content, 2 content, 3 delta.content, 4 text, 5 message,
\* 6 reply), each with a text of its own.
LegacyFrom(k) ==
    [JsonObject EXCEPT
        !.choices = IF k <= 1 THEN <<"l1">> ELSE NoText,
        !.content = IF k <= 2 THEN <<"l2">> ELSE NoText,
        !.delta = IF k <= 3 THEN <<"l3">> ELSE NoText,
        !.text = IF k <= 4 THEN <<"l4">> ELSE NoText,
        !.message = IF k <= 5 THEN <<"l5">> ELSE NoText,
        !.reply = <<"l6">>]

\* The payloads of a "wire" run: every shape of payload the reducers tell
\* apart, one or two of each.
WireChunks ==
    { Sentinel, RawText(<<" ", "[DONE]", "\n">>),
      RawText(<<" ", "r">>), RawText(<<" ">>), Explanation(<<"a">>),
      Status("idle", <<"s">>), Status("working", <<"s">>), Status("error", <<"s">>),
      Status("success", <<"Done">>), Status("", NoText),
      [Status("", NoText) EXCEPT !.content = <<"c">>],
      ErrorEvent(<<"e">>), ErrorEvent(NoText),
      Suggestions(<<"q1">>), Suggestions(<<>>), [JsonObject EXCEPT !.type = "suggestions"],
      JsonObject, [JsonObject EXCEPT !.type = "other", !.content = <<"c">>] }
    \cup { LegacyFrom(k) : k \in 1..6 }

\* ------------------------------------------------------------------- text
Whitespace == {" ", "\n"}

\* String.prototype.trim on a text
RECURSIVE TrimStart(_)
TrimStart(t) ==
    IF t # NoText /\ Head(t) \in Whitespace THEN TrimStart(Tail(t)) ELSE t

RECURSIVE TrimEnd(_)
TrimEnd(t) ==
    IF t # NoText /\ t[Len(t)] \in Whitespace THEN TrimEnd(SubSeq(t, 1, Len(t) - 1)) ELSE t

MutTrim(t) == t

Trim(t) == TrimEnd(TrimStart(t))

\* trimmedChunk === '[DONE]'
IsDone(c) == Trim(c.raw) = <<"[DONE]">>

\* ---------------------------------------------------------------- messages
\* thinkingStatus "none", statusContent NoText and suggestions Absent stand
\* for an absent field, isStreaming FALSE also for an absent one; id is the
\* identity of the message object.
Message(id, role, content, thinkingStatus, isStreaming) ==
    [id |-> id, role |-> role, content |-> content,
     thinkingStatus |-> thinkingStatus, isStreaming |-> isStreaming,
     statusContent |-> NoText, suggestions |-> Absent]

\* ----------------------------------------------------------------- reducer
\* status.type -> thinkingStatus (default 'working', unknown types 'thinking')
MutMapStatus(statusType) == IF statusType = "idle" THEN "start" ELSE "thinking"

MapStatus(statusType) ==
    LET t == IF statusType = "" THEN "working" ELSE statusType IN
    IF t = "idle" THEN "start"
    ELSE IF t = "working" THEN "thinking"
    ELSE IF t = "error" THEN "error"
    ELSE IF t = "success" THEN "end"
    ELSE "thinking"

\* json.status?.content || json.content || '正在處理中...'
StatusContentOf(c) ==
    IF c.scontent # NoText THEN c.scontent
    ELSE IF c.content # NoText THEN c.content
    ELSE Processing

\* the [DONE] branch: content <- buffer or fallback, end, not streaming
MutEndMessage(m, buf) ==
    [m EXCEPT !.content = buf, !.thinkingStatus = "end", !.isStreaming = FALSE]

MutEndMessageAnd(m, buf) ==
    [m EXCEPT !.content = IF buf # NoText THEN QueryDone ELSE buf,
              !.thinkingStatus = "end", !.isStreaming = FALSE]

EndMessage(m, buf) ==
    [m EXCEPT !.content = IF buf # NoText THEN buf ELSE QueryDone,
              !.thinkingStatus = "end", !.isStreaming = FALSE]

\* content <- buffer; start advances to thinking
MutShowContent(m, buf) ==
    [m EXCEPT !.content = buf, !.thinkingStatus = "thinking"]

MutShowContentStale(m, buf) ==
    [m EXCEPT !.thinkingStatus = IF @ = "start" THEN "thinking" ELSE @]

ShowContent(m, buf) ==
    [m EXCEPT !.content = buf,
              !.thinkingStatus = IF @ = "start" THEN "thinking" ELSE @]

\* the legacy-format fallback of Chatbot.vue: the first non-empty field
LegacyContent(c) ==
    IF c.choices # NoText THEN c.choices
    ELSE IF c.content # NoText /\ c.type = "" THEN c.content
    ELSE IF c.delta # NoText THEN c.delta
    ELSE IF c.text # NoText THEN c.text
    ELSE IF c.message # NoText THEN c.message
    ELSE c.reply

\* the catch of JSON.parse in Chatbot.vue: the chunk is literal text
MutChatbotCatch(m, buf, chunk) ==
    IF chunk # NoText
    THEN [msg |-> [m EXCEPT !.content = buf \o Trim(chunk)], buf |-> buf \o Trim(chunk)]
    ELSE [msg |-> m, buf |-> buf]

ChatbotCatch(m, buf, chunk) ==
    IF chunk # NoText
    THEN [msg |-> [m EXCEPT !.content = buf \o chunk], buf |-> buf \o chunk]
    ELSE [msg |-> m, buf |-> buf]

\* One iteration of the loop of the Chatbot.vue watcher, on the message at
\* assistantMessageIndex: the new message and the new contentBuffer.
ChatbotReduce(m, buf, c) ==
    IF IsDone(c) THEN [msg |-> EndMessage(m, buf), buf |-> buf]
    ELSE IF c.form = "text" THEN ChatbotCatch(m, buf, c.raw)
    ELSE IF c.type = "explanation" /\ c.content # NoText THEN
        [msg |-> ShowContent(m, buf \o c.content), buf |-> buf \o c.content]
    ELSE IF c.type = "status" THEN
        [msg |-> [m EXCEPT !.content = StatusContentOf(c),
                           !.thinkingStatus = MapStatus(c.stype)],
         buf |-> buf]
    ELSE IF c.type = "error" THEN
        [msg |-> [m EXCEPT !.content = IF c.error # NoText THEN c.error ELSE ErrorOccurred,
                           !.thinkingStatus = "error"],
         buf |-> buf]
    ELSE IF c.type = "done" THEN
        [msg |-> [m EXCEPT !.thinkingStatus = "end", !.isStreaming = FALSE], buf |-> buf]
    ELSE IF LegacyContent(c) # NoText THEN
        [msg |-> ShowContent(m, buf \o LegacyContent(c)), buf |-> buf \o LegacyContent(c)]
    ELSE [msg |-> m, buf |-> buf]

\* One iteration of the loop of the App.vue watcher. has: the conversation
\* has a last message (m is that message); without one only the buffer moves.
AppReduce(m, has, buf, c) ==
    IF IsDone(c) THEN
        [msg |-> IF has THEN EndMessage(m, buf) ELSE m, buf |-> buf]
    ELSE IF c.form = "text" THEN
        IF c.raw # NoText
        THEN [msg |-> IF has THEN ShowContent(m, buf \o c.raw) ELSE m, buf |-> buf \o c.raw]
        ELSE [msg |-> m, buf |-> buf]
    ELSE IF c.type = "explanation" /\ c.content # NoText THEN
        [msg |-> IF has THEN ShowContent(m, buf \o c.content) ELSE m,
         buf |-> buf \o c.content]
    ELSE IF c.type = "status" THEN
        [msg |-> IF has
                 THEN [m EXCEPT !.content = StatusContentOf(c),
                                !.statusContent = StatusContentOf(c),
                                !.thinkingStatus = MapStatus(c.stype)]
                 ELSE m,
         buf |-> buf]
    ELSE IF c.type = "error" THEN
        LET errorContent == IF c.error # NoText THEN c.error ELSE ErrorOccurred IN
        [msg |-> IF has
                 THEN [m EXCEPT !.content = errorContent, !.statusContent = errorContent,
                                !.thinkingStatus = "error"]
                 ELSE m,
         buf |-> buf]
    ELSE IF c.type = "suggestions" THEN
        [msg |-> IF has /\ c.suggestions # Absent
                 THEN [m EXCEPT !.suggestions = c.suggestions] ELSE m,
         buf |-> buf]
    ELSE IF c.type = "done" THEN
        [msg |-> IF has THEN [m EXCEPT !.thinkingStatus = "end", !.isStreaming = FALSE] ELSE m,
         buf |-> buf]
    ELSE [msg |-> m, buf |-> buf]

\* The loop of the watcher callback over data[i..Len(data)] (1-based).
RECURSIVE WatchLoop(_, _, _, _, _, _)
WatchLoop(comp, m, has, buf, data, i) ==
    IF i > Len(data) THEN [msg |-> m, buf |-> buf]
    ELSE LET r == IF comp = "Chatbot" THEN ChatbotReduce(m, buf, data[i])
                  ELSE AppReduce(m, has, buf, data[i])
         IN WatchLoop(comp, r.msg, has, r.buf, data, i + 1)

\* ------------------------------------------------------------------- state
VARIABLES
    run,         \* what the run exercises: "sends" (up to MaxSends sends, plain
                 \* answers), "stream" (one send, every payload kind) or
                 \* "wire" (one send, every payload shape, a short stream)
    component,   \* the mounted component: "Chatbot" or "App"
    messages,    \* messages.value (Chatbot) / conversation.messages (App)
    isLoading,   \* isLoading.value
    streams,     \* the useXStream instances: data, isLoading, error, controller
    sends,       \* the send operations started so far, each with its locals
    nextId,      \* identity of the next message object
    delivered,   \* number of chunks delivered so far (bounds the run)
    code,        \* props.code of a mounted CTable / CChart: the text of the
                 \* fenced block received so far, a sequence of characters
                 \* ("scan" runs) or of lexical tokens ("block" runs)
    conversations,          \* App.vue conversations.value, by id ("conv" runs)
    currentConversationId,  \* App.vue currentConversationId.value
    calls,       \* the calls of App.vue that are waiting for a response
    backend      \* the conversations the backend stores, and how many
                 \* conversations have been asked for so far

list == <<conversations, currentConversationId, calls, backend>>

vars ==
    <<run, component, messages, isLoading, streams, sends, nextId, delivered, code, list>>

SendLimit == IF run = "sends" THEN MaxSends ELSE 1
Payloads ==
    IF run = "stream" THEN Chunks ELSE IF run = "wire" THEN WireChunks ELSE PlainChunks
ChunkLimit ==
    IF run = "stream" THEN MaxChunks ELSE IF run = "wire" THEN MaxWire ELSE MaxPlain

NewStream == [data |-> <<>>, isLoading |-> FALSE, error |-> FALSE, controller |-> 0]

\* The locals of one callApiSSE / sendMessage call. pc: "fetch" (awaiting
\* fetch), "stream" (awaiting startStream), "settle" (App: the 200 ms wait),
\* "done". user, msg: the ids of the messages this send created (0: none).
\* aborted: its abort controller was aborted; cancelled: handleCancel ran
\* while its stream was loading. History of the watcher: applied (the chunks it applied), appliedIdx (their
\* 0-based log indices), seen (length of the log at its last invocation, -1
\* before the first), reset (another send's startStream replaced the log it
\* watches). emitted: what the call has sent out so far, in order: the
\* component events and the request.
Emitted(event, payload) == [event |-> event, payload |-> payload]

NewSend(userId) ==
    [pc |-> "fetch", user |-> userId, msg |-> 0, index |-> 0, stream |-> 0,
     processedCount |-> 0, contentBuffer |-> NoText,
     watching |-> FALSE, dirty |-> FALSE, aborted |-> FALSE, cancelled |-> FALSE,
     applied |-> <<>>, appliedIdx |-> <<>>, seen |-> -1, reset |-> FALSE,
     emitted |-> <<>>]

\* A call that has returned: its locals are gone, the ids remain as history.
Returned(send) ==
    [NewSend(send.user) EXCEPT !.pc = "done", !.msg = send.msg, !.emitted = send.emitted]

SendIds == 1..Len(sends)

\* No watcher job is pending: Vue runs the queued callbacks in a microtask,
\* before the next UI event, timer or network completion is handled.
Flushed == \A s \in SendIds : ~(sends[s].watching /\ sends[s].dirty)

\* an id of a conversation: `local-...` when made up by App.vue, else the
\* backend's; Undefined: no id
ConversationId(local, n) == [local |-> local, n |-> n]
Undefined == ConversationId(FALSE, 0)

\* the conversation list as it is before anything was loaded or created,
\* with no call waiting (runs other than "conv" leave the list out)
NoList ==
    /\ conversations = <<>>
    /\ currentConversationId = Undefined
    /\ calls = <<>>
    /\ backend = [stored |-> {}, asked |-> 0]

Mounted ==
    /\ component \in Components
    /\ NoList
    /\ messages = <<>>
    /\ isLoading = FALSE
    /\ streams = IF component = "Chatbot" THEN <<NewStream>> ELSE <<>>
    /\ sends = <<>>
    /\ nextId = 1
    /\ delivered = 0
    /\ code = <<>>

Init == run = "sends" /\ Mounted

InitStream == run = "stream" /\ Mounted

InitWire == run = "wire" /\ Mounted

\* ----------------------------------------------------------------- actions
Inputs == {NoText, <<"q">>}

\* the common start of handleSend and sendMessage: push the user message,
\* set isLoading, call fetch
StartSend(message) ==
    /\ message # NoText
    /\ ~isLoading
    /\ Len(sends) < SendLimit
    /\ Flushed
    /\ messages' = Append(messages, Message(nextId, "user", message, "none", FALSE))
    /\ isLoading' = TRUE
    /\ sends' = Append(sends, [NewSend(nextId) EXCEPT !.emitted =
                                   IF component = "Chatbot"
                                   THEN <<Emitted("message-sent", message),
                                          Emitted("fetch", message)>>
                                   ELSE <<Emitted("fetch", message)>>])
    /\ nextId' = nextId + 1
    /\ UNCHANGED <<run, component, list, code, streams, delivered>>

\* Chatbot.vue handleSend up to the await of fetch in callApiSSE
HandleSend(message) ==
    /\ component = "Chatbot"
    /\ StartSend(message)

\* ConversationArea sendMessage + App.vue sendMessage up to the await of fetch
SendMessage(message) ==
    /\ component = "App"
    /\ StartSend(message)

\* the catch/finally of the send: push the apology, reset isLoading
MutFailSend(s, ms) ==
    /\ messages' = Append(ms, Message(nextId, "assistant", Apology, "none", FALSE))
    /\ nextId' = nextId + 1
    /\ UNCHANGED isLoading

FailSend(s, ms) ==
    /\ messages' = Append(ms, Message(nextId, "assistant", Apology, "none", FALSE))
    /\ nextId' = nextId + 1
    /\ isLoading' = FALSE

\* the placeholder pushed when the response is OK and has a body
MutPlaceholder(id) == Message(id, "assistant", NoText, "start", FALSE)

Placeholder(id) == Message(id, "assistant", NoText, "start", TRUE)

FetchOutcomes == {"ok", "rejected", "notOk", "noBody"}

\* fetch settles. ok: push the placeholder, create the watcher, call
\* startStream (which resets data, sets isLoading of the stream and installs
\* its abort controller); otherwise the error is thrown to the catch.
FetchSettles(s, outcome) ==
    /\ s \in SendIds
    /\ sends[s].pc = "fetch"
    /\ Flushed
    /\ UNCHANGED <<run, component, list, code, delivered>>
    /\ IF outcome = "ok"
       THEN LET k == IF component = "Chatbot" THEN 1 ELSE Len(streams) + 1
                started == [NewStream EXCEPT !.isLoading = TRUE, !.controller = s]
            IN /\ messages' = Append(messages, Placeholder(nextId))
               /\ nextId' = nextId + 1
               /\ streams' = IF component = "Chatbot"
                             THEN [streams EXCEPT ![1] = started]
                             ELSE Append(streams, started)
               /\ sends' = [t \in SendIds |->
                     IF t = s
                     THEN [sends[t] EXCEPT !.pc = "stream", !.msg = nextId,
                                           !.index = Len(messages) + 1, !.stream = k,
                                           !.watching = TRUE, !.dirty = TRUE]
                     ELSE IF sends[t].watching /\ sends[t].stream = k
                     THEN [sends[t] EXCEPT !.dirty = TRUE, !.reset = TRUE]
                     ELSE sends[t]]
               /\ UNCHANGED isLoading
       ELSE /\ FailSend(s, messages)
            /\ sends' = [sends EXCEPT ![s] = Returned(@)]
            /\ UNCHANGED streams

\* the stream of send s delivers one more chunk: data.value.push(item)
StreamPush(s) ==
    /\ s \in SendIds
    /\ sends[s].pc = "stream"
    /\ ~sends[s].aborted
    /\ delivered < ChunkLimit
    /\ delivered' = delivered + 1
    /\ \E c \in Payloads :
          streams' = [streams EXCEPT ![sends[s].stream].data = Append(@, c)]
    /\ sends' = [t \in SendIds |->
          IF sends[t].watching /\ sends[t].stream = sends[s].stream
          THEN [sends[t] EXCEPT !.dirty = TRUE] ELSE sends[t]]
    /\ UNCHANGED <<run, component, list, code, messages, isLoading, nextId>>

\* the index of the message the watcher of send s writes to (0: none)
Target(s) ==
    IF component = "Chatbot" THEN sends[s].index ELSE Len(messages)

\* processedCount after a callback that saw a log of length n
MutCursor(n) == IF n > 1 THEN n - 1 ELSE n

Cursor(n) == n

\* the watcher callback of send s, run with the current log
WatchCallback(s) ==
    /\ s \in SendIds
    /\ sends[s].watching
    /\ sends[s].dirty
    /\ LET newData == streams[sends[s].stream].data
           from == sends[s].processedCount + 1
           k == Target(s)
           has == k > 0
           m == IF has THEN messages[k] ELSE Message(0, "none", NoText, "none", FALSE)
           r == WatchLoop(component, m, has, sends[s].contentBuffer, newData, from)
       IN IF Len(newData) = 0
          THEN /\ sends' = [sends EXCEPT ![s].dirty = FALSE, ![s].seen = 0]
               /\ UNCHANGED messages
          ELSE /\ messages' = IF has THEN [messages EXCEPT ![k] = r.msg] ELSE messages
               /\ sends' = [sends EXCEPT
                     ![s].dirty = FALSE,
                     ![s].contentBuffer = r.buf,
                     ![s].processedCount = Cursor(Len(newData)),
                     ![s].applied = IF from <= Len(newData)
                                    THEN @ \o SubSeq(newData, from, Len(newData)) ELSE @,
                     ![s].appliedIdx = @ \o [j \in 1..(Len(newData) - from + 1) |-> from + j - 2],
                     ![s].seen = Len(newData)]
    /\ UNCHANGED <<run, component, list, code, isLoading, streams, nextId, delivered>>

\* startStream of send s returns (end of the body, a read error, or after an
\* abort): the stream instance goes idle, err says whether error.value is
\* set. Chatbot.vue continues at once: stopWatch, then throw streamError to
\* the catch of handleSend, and the finally resets isLoading. App.vue starts
\* its 200 ms wait with the watcher still active. finalResponse is the
\* content of messages[assistantMessageIndex], emitted with message-received
\* between stopWatch and the throw.
MutFinalResponse(s) == sends[s].contentBuffer

FinalResponse(s) == messages[sends[s].index].content

StreamReturns(s, err) ==
    /\ s \in SendIds
    /\ sends[s].pc = "stream"
    /\ Flushed
    /\ streams' = [streams EXCEPT ![sends[s].stream] =
                      [@ EXCEPT !.isLoading = FALSE, !.error = err, !.controller = 0]]
    /\ UNCHANGED <<run, component, list, code, delivered>>
    /\ IF component = "Chatbot"
       THEN /\ sends' = [sends EXCEPT ![s] =
                            [Returned(@) EXCEPT !.emitted =
                                Append(@, Emitted("message-received", FinalResponse(s)))]]
            /\ isLoading' = FALSE
            /\ IF err
               THEN /\ messages' = Append(messages,
                                          Message(nextId, "assistant", Apology, "none", FALSE))
                    /\ nextId' = nextId + 1
               ELSE UNCHANGED <<messages, nextId>>
       ELSE /\ sends' = [sends EXCEPT ![s].pc = "settle"]
            /\ UNCHANGED <<messages, isLoading, nextId>>

\* App.vue after the 200 ms wait: stopWatch, throw streamError to the catch
\* (apology), and the finally resets isLoading. The useXStream instance was
\* local to the call and is gone with it.
StreamSettled(s) ==
    /\ s \in SendIds
    /\ component = "App"
    /\ sends[s].pc = "settle"
    /\ Flushed
    /\ sends' = [sends EXCEPT ![s] = Returned(@)]
    /\ isLoading' = FALSE
    /\ streams' = [streams EXCEPT ![sends[s].stream] = NewStream]
    /\ IF streams[sends[s].stream].error
       THEN /\ messages' = Append(messages,
                                  Message(nextId, "assistant", Apology, "none", FALSE))
            /\ nextId' = nextId + 1
       ELSE UNCHANGED <<messages, nextId>>
    /\ UNCHANGED <<run, component, list, code, delivered>>

\* Chatbot.vue handleCancel (the cancel button of the loading sender):
\* cancelStream() aborts the installed controller when the stream is loading
MutHandleCancel ==
    /\ component = "Chatbot"
    /\ isLoading
    /\ Flushed
    /\ isLoading' = FALSE
    /\ sends' = IF streams[1].isLoading /\ streams[1].controller \in SendIds
                THEN [sends EXCEPT ![streams[1].controller].cancelled = TRUE]
                ELSE sends
    /\ UNCHANGED <<run, component, list, code, messages, streams, nextId, delivered>>

HandleCancel ==
    /\ component = "Chatbot"
    /\ isLoading
    /\ Flushed
    /\ isLoading' = FALSE
    /\ sends' = IF streams[1].isLoading /\ streams[1].controller \in SendIds
                THEN [sends EXCEPT ![streams[1].controller].aborted = TRUE,
                                   ![streams[1].controller].cancelled = TRUE]
                ELSE sends
    /\ UNCHANGED <<run, component, list, code, messages, streams, nextId, delivered>>

\* App.vue clearConversation on the conversation of the send
ClearConversation ==
    /\ component = "App"
    /\ messages # <<>>
    /\ Flushed
    /\ messages' = <<>>
    /\ UNCHANGED <<run, component, list, code, isLoading, streams, sends, nextId, delivered>>

\* ------------------------------------------------------ ConversationArea
\* (mounted by App.vue with the messages of the current conversation and
\* isLoading as props)
LastMessage == messages[Len(messages)]

\* computed shouldShowSuggestions
MutShouldShowSuggestions ==
    IF isLoading \/ Len(messages) = 0 THEN FALSE
    ELSE /\ LastMessage.role = "assistant"
         /\ LastMessage.content # NoText
         /\ Len(Trim(LastMessage.content)) > 0

ShouldShowSuggestions ==
    IF isLoading \/ Len(messages) = 0 THEN FALSE
    ELSE /\ LastMessage.role = "assistant"
         /\ ~LastMessage.isStreaming
         /\ LastMessage.content # NoText
         /\ Len(Trim(LastMessage.content)) > 0

\* computed suggestions: the labels of the prompt items
SuggestionItems ==
    IF Len(messages) = 0 THEN <<>>
    ELSE IF /\ LastMessage.role = "assistant"
            /\ LastMessage.suggestions # Absent
            /\ Len(LastMessage.suggestions[1]) > 0
         THEN LastMessage.suggestions[1]
         ELSE <<>>

\* the template: <div v-if="shouldShowSuggestions"> <Prompts :items="suggestions">
SuggestionsArea ==
    [shown |-> component = "App" /\ ShouldShowSuggestions,
     items |-> IF component = "App" /\ ShouldShowSuggestions THEN SuggestionItems ELSE <<>>]

Next ==
    \/ \E message \in Inputs : HandleSend(message)
    \/ \E message \in Inputs : SendMessage(message)
    \/ \E s \in 1..MaxSends, outcome \in FetchOutcomes : FetchSettles(s, outcome)
    \/ \E s \in 1..MaxSends : StreamPush(s)
    \/ \E s \in 1..MaxSends : WatchCallback(s)
    \/ \E s \in 1..MaxSends, err \in BOOLEAN : StreamReturns(s, err)
    \/ \E s \in 1..MaxSends : StreamSettled(s)
    \/ HandleCancel
    \/ ClearConversation

Spec == Init /\ [][Next]_vars

SpecStream == InitStream /\ [][Next]_vars

SpecWire == InitWire /\ [][Next]_vars

\* ------------------------------------------- App.vue: a load during a send
\* data.messages of GET /conversations/{id}/messages: nothing stored yet, the
\* question, or the question and an answer
Histories == {<<>>, <<"user">>, <<"user", "assistant">>}

\* data.messages.map(...): new message objects, none of them streaming
Loaded(history, firstId) ==
    [i \in DOMAIN history |->
        Message(firstId + i - 1, history[i], <<"h">>, "none", FALSE)]

\* the messages a "load" run can hold: those of its send and those loaded
IdLimit == 3 + 2 * MaxLoads

\* The response of loadConversationMessages(id) for the conversation of the
\* send arrives (selectConversation on it, or deleteConversation of another
\* current conversation that leaves it first in the list): its messages are
\* replaced by the stored ones.
LoadConversationMessages(history) ==
    /\ component = "App"
    /\ Flushed
    /\ nextId + Len(history) <= IdLimit + 1
    /\ messages' = Loaded(history, nextId)
    /\ nextId' = nextId + Len(history)
    /\ UNCHANGED <<run, component, list, code, isLoading, streams, sends, delivered>>

InitLoad == run = "load" /\ Mounted /\ component = "App"

NextLoad ==
    \/ \E message \in Inputs : SendMessage(message)
    \/ \E s \in 1..MaxSends, outcome \in FetchOutcomes : FetchSettles(s, outcome)
    \/ \E s \in 1..MaxSends : StreamPush(s)
    \/ \E s \in 1..MaxSends : WatchCallback(s)
    \/ \E s \in 1..MaxSends, err \in BOOLEAN : StreamReturns(s, err)
    \/ \E s \in 1..MaxSends : StreamSettled(s)
    \/ ClearConversation
    \/ \E history \in Histories : LoadConversationMessages(history)

SpecLoad == InitLoad /\ [][NextLoad]_vars

\* ------------------------------------------- App.vue: the conversation list
\* conversations holds the ids of the Conversation objects, in list order.
\* A call that waits for a response: op is the function, pc the request it
\* waits for, id the conversation it is about, data the response on its way.
Call(op, pc, id, data) == [op |-> op, pc |-> pc, id |-> id, data |-> data]

Remove(seq, i) == SubSeq(seq, 1, i - 1) \o SubSeq(seq, i + 1, Len(seq))

ConversationIds ==
    {ConversationId(local, n) : local \in BOOLEAN, n \in 1..(MaxConversations + 2)}
CallLimit == 2 * MaxConversations + 3

\* data.conversations of GET /conversations: what the backend stores
RECURSIVE Listed(_)
Listed(stored) ==
    IF stored = {} THEN <<>>
    ELSE LET first == CHOOSE c \in stored : \A d \in stored : c.n <= d.n
         IN <<first>> \o Listed(stored \ {first})

session == <<run, component, messages, isLoading, streams, sends, nextId, delivered, code>>

\* createNewConversation up to the await of its POST; the id is the one the
\* backend will give
CreateNewConversation ==
    /\ backend.asked < MaxConversations + 1
    /\ calls' = Append(calls, Call("createNewConversation", "post",
                                   ConversationId(FALSE, backend.asked + 1), <<>>))
    /\ backend' = [backend EXCEPT !.asked = @ + 1]
    /\ UNCHANGED <<session, conversations, currentConversationId>>

\* the POST settles: the new conversation, or a local one in the catch, is
\* put first and made current
CreateSettles(i, ok) ==
    /\ i \in DOMAIN calls
    /\ calls[i].op = "createNewConversation"
    /\ LET id == IF ok THEN calls[i].id ELSE ConversationId(TRUE, calls[i].id.n) IN
       /\ conversations' = <<id>> \o conversations
       /\ currentConversationId' = id
       /\ backend' = IF ok THEN [backend EXCEPT !.stored = @ \cup {id}] ELSE backend
    /\ calls' = Remove(calls, i)
    /\ UNCHANGED session

\* selectConversation(id) with an id of the list: the id is made current at
\* once; the load of its messages that follows touches neither the list nor
\* the current id
SelectConversation(id) ==
    /\ \E k \in DOMAIN conversations : conversations[k] = id
    /\ currentConversationId # id
    /\ currentConversationId' = id
    /\ UNCHANGED <<session, conversations, calls, backend>>

\* deleteConversation(id) up to its first await: the conversation leaves the
\* list and, when it was current, the first of the others (or none) becomes
\* current. It then waits for the messages of that conversation and, for a
\* backend id, for its DELETE; a local id with nothing to load is done.
DeleteConversation(id) ==
    /\ \E k \in DOMAIN conversations : conversations[k] = id
    /\ LET remaining == SelectSeq(conversations, LAMBDA c : c # id)
           wasCurrentConversation == currentConversationId = id
       IN /\ conversations' = remaining
          /\ currentConversationId' =
                IF wasCurrentConversation
                THEN IF remaining # <<>> THEN remaining[1] ELSE Undefined
                ELSE currentConversationId
          /\ calls' = IF ~id.local \/ (wasCurrentConversation /\ remaining # <<>>)
                       THEN Append(calls, Call("deleteConversation",
                                               IF id.local THEN "messages" ELSE "delete",
                                               id, <<>>))
                       ELSE calls
    /\ UNCHANGED <<session, backend>>

\* the awaits of deleteConversation are over: the backend has taken the
\* conversation out, the call returns
DeleteCompletes(i) ==
    /\ i \in DOMAIN calls
    /\ calls[i].op = "deleteConversation"
    /\ backend' = [backend EXCEPT !.stored = @ \ {calls[i].id}]
    /\ calls' = Remove(calls, i)
    /\ UNCHANGED <<session, conversations, currentConversationId>>

\* the backend answers the GET of loadConversations with what it stores
ServerLists(i) ==
    /\ i \in DOMAIN calls
    /\ calls[i].op = "loadConversations"
    /\ calls[i].pc = "get"
    /\ calls' = [calls EXCEPT ![i].pc = "got", ![i].data = Listed(backend.stored)]
    /\ UNCHANGED <<session, conversations, currentConversationId, backend>>

\* the GET of loadConversations settles. ok: the list is replaced by the
\* response; with conversations the first becomes current, with none
\* createNewConversation is awaited. Otherwise (failure, timeout) the catch
\* awaits createNewConversation.
LoadConversationsSettles(i, ok) ==
    /\ i \in DOMAIN calls
    /\ calls[i].op = "loadConversations"
    /\ ok => calls[i].pc = "got"
    /\ LET data == calls[i].data
           create == Call("createNewConversation", "post",
                          ConversationId(FALSE, backend.asked + 1), <<>>)
       IN IF ok /\ data # <<>>
          THEN /\ conversations' = data
               /\ currentConversationId' = data[1]
               /\ calls' = Remove(calls, i)
               /\ UNCHANGED backend
          ELSE /\ conversations' = IF ok THEN data ELSE conversations
               /\ calls' = [calls EXCEPT ![i] = create]
               /\ backend' = [backend EXCEPT !.asked = @ + 1]
               /\ UNCHANGED currentConversationId
    /\ UNCHANGED session

\* App.vue is set up: loadConversations() has been called and waits for its
\* GET; the backend stores nothing or one conversation
InitConv ==
    /\ run = "conv"
    /\ component = "App"
    /\ messages = <<>> /\ isLoading = FALSE /\ streams = <<>> /\ sends = <<>>
    /\ nextId = 1 /\ delivered = 0 /\ code = <<>>
    /\ conversations = <<>>
    /\ currentConversationId = Undefined
    /\ calls = <<Call("loadConversations", "get", Undefined, <<>>)>>
    /\ backend \in {[stored |-> {}, asked |-> 0],
                    [stored |-> {ConversationId(FALSE, 1)}, asked |-> 1]}

NextConv ==
    \/ CreateNewConversation
    \/ \E i \in 1..CallLimit, ok \in BOOLEAN : CreateSettles(i, ok)
    \/ \E id \in ConversationIds : SelectConversation(id)
    \/ \E id \in ConversationIds : DeleteConversation(id)
    \/ \E i \in 1..CallLimit : DeleteCompletes(i)
    \/ \E i \in 1..CallLimit : ServerLists(i)
    \/ \E i \in 1..CallLimit, ok \in BOOLEAN : LoadConversationsSettles(i, ok)

SpecConv == InitConv /\ [][NextConv]_vars

\* ------------------------------------------------- CTable.vue / CChart.vue
\* The two components that render a fenced block; each is handed the text of
\* the block as props.code and re-evaluates parseTableData / parseChartData
\* whenever the text grows.
Renderers == {"CTable", "CChart"}

\* the characters a "scan" run is made of ("a" stands for any other character)
ScanChars == {"{", "}", "\"", "'", "\\", " ", ";", "a"}

\* trimmed.slice(i + 1).trim().replace(/;?\s*$/, '')
MutRemaining(trimmed, i) ==
    SelectSeq(SubSeq(trimmed, i + 1, Len(trimmed)), LAMBDA c : c \notin Whitespace \cup {";"})

Remaining(trimmed, i) ==
    LET rest == Trim(SubSeq(trimmed, i + 1, Len(trimmed)))
        body == TrimEnd(rest)
    IN IF body # <<>> /\ body[Len(body)] = ";"
       THEN SubSeq(body, 1, Len(body) - 1) ELSE body

\* the locals of isCompleteJSON before the loop; returned: the loop has hit
\* its return statement, with result
ScanStart ==
    [braceCount |-> 0, inString |-> FALSE, stringChar |-> "", escapeNext |-> FALSE,
     returned |-> FALSE, result |-> FALSE]

\* one iteration of the loop of isCompleteJSON, at the (1-based) position i
MutScanStepNoStrings(st, trimmed, i) ==
    LET char == trimmed[i] IN
    IF st.returned THEN st
    ELSE IF char = "{" THEN [st EXCEPT !.braceCount = @ + 1]
    ELSE IF char = "}" THEN
        IF st.braceCount - 1 = 0
        THEN [st EXCEPT !.braceCount = 0, !.returned = TRUE,
                        !.result = (Remaining(trimmed, i) = <<>>)]
        ELSE [st EXCEPT !.braceCount = @ - 1]
    ELSE st

MutScanStepAnyQuote(st, trimmed, i) ==
    LET char == trimmed[i] IN
    IF st.returned THEN st
    ELSE IF st.escapeNext THEN [st EXCEPT !.escapeNext = FALSE]
    ELSE IF char = "\\" THEN [st EXCEPT !.escapeNext = TRUE]
    ELSE IF char \in {"\"", "'"} THEN
        IF ~st.inString THEN [st EXCEPT !.inString = TRUE, !.stringChar = char]
        ELSE [st EXCEPT !.inString = FALSE, !.stringChar = ""]
    ELSE IF ~st.inString THEN
        IF char = "{" THEN [st EXCEPT !.braceCount = @ + 1]
        ELSE IF char = "}" THEN
            IF st.braceCount - 1 = 0
            THEN [st EXCEPT !.braceCount = 0, !.returned = TRUE,
                            !.result = (Remaining(trimmed, i) = <<>>)]
            ELSE [st EXCEPT !.braceCount = @ - 1]
        ELSE st
    ELSE st

ScanStep(st, trimmed, i) ==
    LET char == trimmed[i] IN
    IF st.returned THEN st
    ELSE IF st.escapeNext THEN [st EXCEPT !.escapeNext = FALSE]
    ELSE IF char = "\\" THEN [st EXCEPT !.escapeNext = TRUE]
    ELSE IF char \in {"\"", "'"} THEN
        IF ~st.inString THEN [st EXCEPT !.inString = TRUE, !.stringChar = char]
        ELSE IF char = st.stringChar THEN [st EXCEPT !.inString = FALSE, !.stringChar = ""]
        ELSE st
    ELSE IF ~st.inString THEN
        IF char = "{" THEN [st EXCEPT !.braceCount = @ + 1]
        ELSE IF char = "}" THEN
            IF st.braceCount - 1 = 0
            THEN [st EXCEPT !.braceCount = 0, !.returned = TRUE,
                            !.result = (Remaining(trimmed, i) = <<>>)]
            ELSE [st EXCEPT !.braceCount = @ - 1]
        ELSE st
    ELSE st

\* the locals of isCompleteJSON after the first k iterations of its loop
RECURSIVE Scan(_, _)
Scan(trimmed, k) ==
    IF k = 0 THEN ScanStart ELSE ScanStep(Scan(trimmed, k - 1), trimmed, k)

MutIsCompleteJSON(str) ==
    LET trimmed == Trim(str)
        st == Scan(trimmed, Len(trimmed))
    IN IF st.returned THEN st.result ELSE st.braceCount = 0

IsCompleteJSON(str) ==
    LET trimmed == Trim(str) IN
    IF trimmed = <<>> \/ trimmed[1] # "{" THEN FALSE
    ELSE LET st == Scan(trimmed, Len(trimmed)) IN
         IF st.returned THEN st.result ELSE st.braceCount = 0

\* CChart.vue carries its own copy of the scanner
ChartRemaining(trimmed, i) ==
    LET rest == Trim(SubSeq(trimmed, i + 1, Len(trimmed)))
        body == TrimEnd(rest)
    IN IF body # <<>> /\ body[Len(body)] = ";"
       THEN SubSeq(body, 1, Len(body) - 1) ELSE body

ChartScanStart ==
    [braceCount |-> 0, inString |-> FALSE, stringChar |-> "", escapeNext |-> FALSE,
     returned |-> FALSE, result |-> FALSE]

ChartScanStep(st, trimmed, i) ==
    LET char == trimmed[i] IN
    IF st.returned THEN st
    ELSE IF st.escapeNext THEN [st EXCEPT !.escapeNext = FALSE]
    ELSE IF char = "\\" THEN [st EXCEPT !.escapeNext = TRUE]
    ELSE IF char \in {"\"", "'"} THEN
        IF ~st.inString THEN [st EXCEPT !.inString = TRUE, !.stringChar = char]
        ELSE IF char = st.stringChar THEN [st EXCEPT !.inString = FALSE, !.stringChar = ""]
        ELSE st
    ELSE IF ~st.inString THEN
        IF char = "{" THEN [st EXCEPT !.braceCount = @ + 1]
        ELSE IF char = "}" THEN
            IF st.braceCount - 1 = 0
            THEN [st EXCEPT !.braceCount = 0, !.returned = TRUE,
                            !.result = (ChartRemaining(trimmed, i) = <<>>)]
            ELSE [st EXCEPT !.braceCount = @ - 1]
        ELSE st
    ELSE st

RECURSIVE ChartScan(_, _)
ChartScan(trimmed, k) ==
    IF k = 0 THEN ChartScanStart ELSE ChartScanStep(ChartScan(trimmed, k - 1), trimmed, k)

ChartIsCompleteJSON(str) ==
    LET trimmed == Trim(str) IN
    IF trimmed = <<>> \/ trimmed[1] # "{" THEN FALSE
    ELSE LET st == ChartScan(trimmed, Len(trimmed)) IN
         IF st.returned THEN st.result ELSE st.braceCount = 0

Rendered ==
    /\ component \in Renderers
    /\ NoList
    /\ messages = <<>>
    /\ isLoading = FALSE
    /\ streams = <<>>
    /\ sends = <<>>
    /\ nextId = 1
    /\ delivered = 0
    /\ code = <<>>

\* (isCompleteJSON of CChart.vue is a copy of that of CTable.vue: a scan run
\* mounts the table)
InitScan == run = "scan" /\ Rendered /\ component = "CTable"

\* the content of the block grows by one character
CodeArrives(ch) ==
    /\ run = "scan"
    /\ Len(code) < MaxText
    /\ code' = Append(code, ch)
    /\ UNCHANGED <<run, component, list, messages, isLoading, streams, sends, nextId, delivered>>

NextScan == \E ch \in ScanChars : CodeArrives(ch)

SpecScan == InitScan /\ [][NextScan]_vars

\* ------------------------------------------------------- claim vocabulary
IsPrefix(a, b) == Len(a) <= Len(b) /\ SubSeq(b, 1, Len(a)) = a

Ids(ms) == {ms[i].id : i \in DOMAIN ms}
Msg(ms, id) == ms[CHOOSE i \in DOMAIN ms : ms[i].id = id]

\* the message of send s is in the list
HasMsg(s) == sends[s].msg # 0 /\ sends[s].msg \in Ids(messages)
InFlight(s) == Msg(messages, sends[s].msg)

\* The payloads whose trimmed text is [DONE].
SentinelPayloads == { RawText(<<"[DONE]">>), RawText(<<" ", "[DONE]", "\n">>) }

\* Event kinds of the spec's classifier, as the mounted component reads them
\* (App.vue has no legacy-field branch).
IsRawText(c) == c.form = "text" /\ c.raw # NoText /\ c \notin SentinelPayloads
IsExplanation(c) == c.form = "json" /\ c.type = "explanation" /\ c.content # NoText
IsLegacy(c) ==
    /\ c.form = "json"
    /\ ~IsExplanation(c)
    /\ c.type \notin {"status", "error", "done"}
    /\ LegacyContent(c) # NoText
IsDelta(c) == IsRawText(c) \/ IsExplanation(c) \/ (component = "Chatbot" /\ IsLegacy(c))
IsStatusEvent(c) == c.form = "json" /\ c.type = "status"
IsErrorEvent(c) == c.form = "json" /\ c.type = "error"
DeltaText(c) ==
    IF IsRawText(c) THEN c.raw ELSE IF IsExplanation(c) THEN c.content ELSE LegacyContent(c)

RECURSIVE Concat(_)
Concat(events) ==
    IF events = <<>> THEN NoText ELSE DeltaText(Head(events)) \o Concat(Tail(events))

\* the chunks the watcher of send s applies in this step
StepEvents(s) ==
    IF s \in DOMAIN sends' /\ sends'[s].watching
       /\ Len(sends'[s].applied) > Len(sends[s].applied)
    THEN SubSeq(sends'[s].applied, Len(sends[s].applied) + 1, Len(sends'[s].applied))
    ELSE <<>>

\* the message of send s is in the list before and after this step
Survives(s) == HasMsg(s) /\ sends[s].msg \in Ids(messages')

Terminal == {"end", "error"}

\* ------------------------------------------------------------------ claims

\* C1: once the displayState (thinkingStatus) of a message is end or error, no
\* later step sets it back to start or thinking.
C1_MonotonicTerminality ==
    [][\A id \in Ids(messages) \cap Ids(messages') :
          Msg(messages, id).thinkingStatus \in Terminal
          => Msg(messages', id).thinkingStatus \notin {"start", "thinking"}]_vars

\* C2: every change of displayState follows one of the edges start->thinking,
\* start->end, start->error, thinking->end, thinking->error; in particular
\* nothing changes it once it is end or error.
DisplayEdges ==
    { <<"start", "thinking">>, <<"start", "end">>, <<"start", "error">>,
      <<"thinking", "end">>, <<"thinking", "error">> }

C2_DisplayStateEdges ==
    [][\A id \in Ids(messages) \cap Ids(messages') :
          Msg(messages, id).thinkingStatus # Msg(messages', id).thinkingStatus
          => <<Msg(messages, id).thinkingStatus, Msg(messages', id).thinkingStatus>>
                 \in DisplayEdges]_vars

\* C3: when the displayState of the in-flight message is error, a watcher step
\* that applies only content deltas (explanation, legacy-field content, raw
\* text) leaves it error.
C3_ErrorSurvivesDeltas ==
    [][\A s \in SendIds :
          LET ev == StepEvents(s) IN
          ( /\ ev # <<>>
            /\ \A i \in DOMAIN ev : IsDelta(ev[i])
            /\ Survives(s)
            /\ InFlight(s).thinkingStatus = "error" )
          => Msg(messages', sends[s].msg).thinkingStatus = "error"]_vars

\* C3 witness: an error event then a content delta were applied and the
\* in-flight message still shows error.
C3_Witness ==
    \E s \in SendIds :
        /\ sends[s].watching /\ HasMsg(s)
        /\ Len(sends[s].applied) >= 2
        /\ IsErrorEvent(sends[s].applied[1])
        /\ IsDelta(sends[s].applied[2])
        /\ InFlight(s).thinkingStatus = "error"

\* C4: after content deltas t1..tn (n >= 0) followed by [DONE] and nothing
\* else, the in-flight message has content t1+...+tn (the fallback completion
\* string when that is empty), displayState end and isStreaming false.
DeltasThenDone(events) ==
    /\ events # <<>>
    /\ events[Len(events)] = Sentinel
    /\ \A i \in 1..(Len(events) - 1) : IsDelta(events[i])

C4_DeltasThenDone ==
    \A s \in SendIds :
        (sends[s].watching /\ HasMsg(s) /\ DeltasThenDone(sends[s].applied))
        => LET text == Concat(SubSeq(sends[s].applied, 1, Len(sends[s].applied) - 1)) IN
           /\ InFlight(s).content = IF text # NoText THEN text ELSE QueryDone
           /\ InFlight(s).thinkingStatus = "end"
           /\ InFlight(s).isStreaming = FALSE

\* C4 witness: two deltas and [DONE] were applied to a message in the list.
C4_Witness ==
    \E s \in SendIds :
        /\ sends[s].watching /\ HasMsg(s)
        /\ DeltasThenDone(sends[s].applied)
        /\ Len(sends[s].applied) = 3
        /\ Len(InFlight(s).content) = 2

\* C5: a JSON `done` event has the effect of the [DONE] sentinel: right after
\* it the content is the accumulated buffer (the fallback completion string
\* when the buffer is empty), displayState is end and isStreaming is false.
C5_DoneLikeSentinel ==
    \A s \in SendIds :
        ( /\ sends[s].watching /\ HasMsg(s)
          /\ sends[s].applied # <<>>
          /\ sends[s].applied[Len(sends[s].applied)] = DoneEvent )
        => /\ InFlight(s).content =
                 IF sends[s].contentBuffer # NoText THEN sends[s].contentBuffer ELSE QueryDone
           /\ InFlight(s).thinkingStatus = "end"
           /\ InFlight(s).isStreaming = FALSE

\* C6: once a terminal event has set isStreaming to false, no later step
\* changes the content, displayState, statusText or isStreaming of the message.
C6_FrozenAfterTerminal ==
    [][\A id \in Ids(messages) \cap Ids(messages') :
          ( /\ Msg(messages, id).thinkingStatus # "none"
            /\ ~Msg(messages, id).isStreaming )
          => /\ Msg(messages', id).content = Msg(messages, id).content
             /\ Msg(messages', id).thinkingStatus = Msg(messages, id).thinkingStatus
             /\ Msg(messages', id).statusContent = Msg(messages, id).statusContent
             /\ Msg(messages', id).isStreaming = Msg(messages, id).isStreaming]_vars

\* C7 as stated: while the message is streaming, a watcher step that applies no
\* status-type event leaves the old content as a prefix of the new content.
C7_AppendOnlyExceptStatus ==
    [][\A s \in SendIds :
          LET ev == StepEvents(s) IN
          ( /\ ev # <<>>
            /\ \A i \in DOMAIN ev : ~IsStatusEvent(ev[i])
            /\ Survives(s)
            /\ InFlight(s).isStreaming )
          => IsPrefix(InFlight(s).content, Msg(messages', sends[s].msg).content)]_vars

\* C7 amended: while the message is streaming and its content has not been
\* replaced by a status or error text (content = contentBuffer), a watcher step
\* that applies no status-type and no error-type event leaves the old content
\* as a prefix of the new content.
C7_AppendOnlyOnBuffer ==
    [][\A s \in SendIds :
          LET ev == StepEvents(s) IN
          ( /\ ev # <<>>
            /\ \A i \in DOMAIN ev : ~IsStatusEvent(ev[i]) /\ ~IsErrorEvent(ev[i])
            /\ Survives(s)
            /\ InFlight(s).isStreaming
            /\ InFlight(s).content = sends[s].contentBuffer )
          => IsPrefix(InFlight(s).content, Msg(messages', sends[s].msg).content)]_vars

\* C7 witness: two content deltas were applied to a streaming message whose
\* content is the buffer.
C7_Witness ==
    \E s \in SendIds :
        /\ sends[s].watching /\ HasMsg(s)
        /\ InFlight(s).isStreaming
        /\ Len(sends[s].applied) = 2
        /\ \A i \in 1..2 : IsDelta(sends[s].applied[i])
        /\ InFlight(s).content = sends[s].contentBuffer
        /\ Len(InFlight(s).content) = 2

\* C8: against a log that only grows, the watcher applies every log index
\* exactly once, in increasing order, and after each invocation processedCount
\* is the length of the log that invocation saw.
C8_ExactlyOnceInOrder ==
    \A s \in SendIds :
        (sends[s].watching /\ ~sends[s].reset)
        => /\ sends[s].appliedIdx = [j \in 1..sends[s].processedCount |-> j - 1]
           /\ sends[s].processedCount = (IF sends[s].seen = -1 THEN 0 ELSE sends[s].seen)
           /\ sends[s].processedCount <= Len(streams[sends[s].stream].data)
           /\ sends[s].applied =
                  SubSeq(streams[sends[s].stream].data, 1, sends[s].processedCount)

\* C8 witness: the watcher of the second send of a run has seen a log of two
\* chunks and applied the indices 0 and 1.
C8_Witness ==
    \E s \in SendIds :
        /\ s > 1
        /\ sends[s].watching /\ ~sends[s].reset /\ ~sends[s].dirty
        /\ sends[s].seen = 2
        /\ sends[s].processedCount = 2
        /\ sends[s].appliedIdx = <<0, 1>>

\* C9: a send whose fetch is OK with a body appends exactly one message, an
\* assistant message with empty content, displayState start and isStreaming
\* true, behind the user message of that send; a send whose fetch fails, is
\* not OK or has no body adds no streaming message.
C9_OneInFlightPerSend ==
    [][\A s \in SendIds :
          (sends[s].pc = "fetch" /\ sends'[s].pc # "fetch")
          => IF sends'[s].pc = "stream"
             THEN /\ Len(messages') = Len(messages) + 1
                  /\ SubSeq(messages', 1, Len(messages)) = messages
                  /\ LET m == messages'[Len(messages')] IN
                     /\ m.role = "assistant" /\ m.content = NoText
                     /\ m.thinkingStatus = "start" /\ m.isStreaming = TRUE
                     /\ m.id \notin Ids(messages)
                  /\ \A i \in DOMAIN messages' :
                        messages'[i].id = sends[s].user => i < Len(messages')
             ELSE \A i \in DOMAIN messages' :
                     messages'[i].isStreaming => messages'[i].id \in Ids(messages)]_vars

\* C9 witness: one send failed before streaming, a later one is streaming with
\* its placeholder last in the list, behind its user message.
C9_Witness ==
    \E s, t \in SendIds :
        /\ sends[t].pc = "done" /\ sends[t].msg = 0
        /\ sends[s].pc = "stream" /\ HasMsg(s)
        /\ messages[Len(messages)].id = sends[s].msg
        /\ messages[Len(messages)].isStreaming
        /\ messages[Len(messages) - 1].id = sends[s].user

\* C10: at every moment at most one send operation is active (from its request
\* until its stream has completed and its watcher is stopped).
ActiveSends == {s \in SendIds : sends[s].pc # "done"}

C10_OneActiveSend == Cardinality(ActiveSends) <= 1

Finishes(s) == sends[s].pc # "done" /\ sends'[s].pc = "done"

TransportFailed(s) ==
    IF sends[s].pc = "fetch" THEN TRUE
    ELSE IF component = "Chatbot" THEN streams'[sends[s].stream].error
    ELSE streams[sends[s].stream].error

C12_OneApologyPerFailure ==
    [][\A s \in SendIds :
          Finishes(s)
          => /\ ~isLoading'
             /\ TransportFailed(s)
                => /\ Len(messages') = Len(messages) + 1
                   /\ SubSeq(messages', 1, Len(messages)) = messages
                   /\ messages'[Len(messages')].role = "assistant"
                   /\ messages'[Len(messages')].content = Apology
                   /\ messages'[Len(messages')].id \notin Ids(messages)]_vars

\* C12 witness: a send whose stream failed after its in-flight message was
\* created has finished; the apology is the last message, behind the in-flight
\* message with its partial content, and isLoading is false.
C12_Witness ==
    \E s \in SendIds :
        /\ sends[s].pc = "done" /\ HasMsg(s)
        /\ InFlight(s).content # NoText
        /\ Len(messages) >= 3
        /\ messages[Len(messages) - 1].id = sends[s].msg
        /\ messages[Len(messages)].content = Apology
        /\ ~isLoading

\* C13: a payload whose trimmed text is [DONE], with or without whitespace
\* around it, ends the message (content the buffer or the fallback completion
\* string, displayState end, isStreaming false), and the text of the marker
\* never enters the content buffer or the content of a message.
Tokens(t) == {t[i] : i \in DOMAIN t}

C13_SentinelTrimmed ==
    /\ \A s \in SendIds :
          ( /\ sends[s].watching /\ HasMsg(s)
            /\ sends[s].applied # <<>>
            /\ sends[s].applied[Len(sends[s].applied)] \in SentinelPayloads )
          => /\ InFlight(s).thinkingStatus = "end"
             /\ InFlight(s).isStreaming = FALSE
             /\ InFlight(s).content =
                   IF sends[s].contentBuffer # NoText THEN sends[s].contentBuffer ELSE QueryDone
    /\ \A s \in SendIds : "[DONE]" \notin Tokens(sends[s].contentBuffer)
    /\ \A i \in DOMAIN messages : "[DONE]" \notin Tokens(messages[i].content)

\* C13 witness: a content delta and then the marker with whitespace around it
\* were applied; the message ended with the text of the delta.
C13_Witness ==
    \E s \in SendIds :
        /\ sends[s].watching /\ HasMsg(s)
        /\ Len(sends[s].applied) = 2
        /\ IsDelta(sends[s].applied[1])
        /\ sends[s].applied[2] = RawText(<<" ", "[DONE]", "\n">>)
        /\ InFlight(s).thinkingStatus = "end"
        /\ InFlight(s).content = DeltaText(sends[s].applied[1])

\* C14 as stated: right after a status event the displayState is the image of
\* status.type (idle->start, working->thinking, error->error, success->end,
\* absent as working) and the text shown is status.content, or the generic
\* processing text when status.content is absent, whatever else the payload
\* carries.
LastApplied(s) == sends[s].applied[Len(sends[s].applied)]

AfterStatus(s) ==
    /\ sends[s].watching /\ HasMsg(s)
    /\ sends[s].applied # <<>>
    /\ IsStatusEvent(LastApplied(s))

StatusTable ==
    [idle |-> "start", working |-> "thinking", error |-> "error", success |-> "end"]

ClaimedState(c) == StatusTable[IF c.stype = "" THEN "working" ELSE c.stype]

C14_StatusTextNestedOnly ==
    \A s \in SendIds :
        AfterStatus(s)
        => /\ InFlight(s).thinkingStatus = ClaimedState(LastApplied(s))
           /\ InFlight(s).content =
                 IF LastApplied(s).scontent # NoText
                 THEN LastApplied(s).scontent ELSE Processing

\* C14 amended: the same mapping of status.type, and the text shown is
\* status.content, else the top-level content of the payload, else the
\* generic processing text.
C14_StatusMapping ==
    \A s \in SendIds :
        AfterStatus(s)
        => /\ InFlight(s).thinkingStatus = ClaimedState(LastApplied(s))
           /\ InFlight(s).content =
                 IF LastApplied(s).scontent # NoText THEN LastApplied(s).scontent
                 ELSE IF LastApplied(s).content # NoText THEN LastApplied(s).content
                 ELSE Processing

\* C14 witness: after a status without status.content but with a top-level
\* content, status {type: success, content: "Done"} was applied: the message
\* shows end and "Done".
C14_Witness ==
    \E s \in SendIds :
        /\ AfterStatus(s)
        /\ sends[s].applied =
               << [Status("", NoText) EXCEPT !.content = <<"c">>], Status("success", <<"Done">>) >>
        /\ InFlight(s).thinkingStatus = "end"
        /\ InFlight(s).content = <<"Done">>

\* C15: right after a status event the content of the in-flight message is the
\* status text (not appended to what was there), its statusContent is the same
\* text, and its displayState is the mapped state, in both components.
StatusText(c) ==
    IF c.scontent # NoText THEN c.scontent
    ELSE IF c.content # NoText THEN c.content ELSE Processing

C15_StatusUpdateApplied ==
    \A s \in SendIds :
        AfterStatus(s)
        => /\ InFlight(s).content = StatusText(LastApplied(s))
           /\ InFlight(s).statusContent = StatusText(LastApplied(s))
           /\ InFlight(s).thinkingStatus = ClaimedState(LastApplied(s))

\* C16: right after an error event the content and the statusContent of the
\* in-flight message are payload.error (the default error message when it is
\* empty) and the displayState is error; the step appends no message, the send
\* goes on and its watcher still applies later events.
AfterError(s) ==
    /\ sends[s].watching /\ HasMsg(s)
    /\ sends[s].applied # <<>>
    /\ IsErrorEvent(LastApplied(s))

ErrorText(c) == IF c.error # NoText THEN c.error ELSE ErrorOccurred

C16_ErrorEventNonFatal ==
    \A s \in SendIds :
        AfterError(s)
        => /\ InFlight(s).content = ErrorText(LastApplied(s))
           /\ InFlight(s).statusContent = ErrorText(LastApplied(s))
           /\ InFlight(s).thinkingStatus = "error"
           /\ \A i \in DOMAIN messages : messages[i].content # Apology
           /\ sends[s].pc \in {"stream", "settle"}

\* C17: a watcher step that applies one suggestions event replaces the
\* suggestions of the in-flight message by the array of the event when that
\* array is non-empty (content untouched), and changes nothing of the message
\* when the array is empty or missing.
IsSuggestionsEvent(c) == c.form = "json" /\ c.type = "suggestions"

HasItems(c) == c.suggestions # Absent /\ c.suggestions[1] # <<>>

C17_SuggestionsOnlyNonEmpty ==
    [][\A s \in SendIds :
          LET ev == StepEvents(s) IN
          (Len(ev) = 1 /\ IsSuggestionsEvent(ev[1]) /\ Survives(s))
          => IF HasItems(ev[1])
             THEN /\ Msg(messages', sends[s].msg).suggestions = ev[1].suggestions
                  /\ Msg(messages', sends[s].msg).content = InFlight(s).content
             ELSE Msg(messages', sends[s].msg) = InFlight(s)]_vars

\* C18: the suggestions area is shown only when no send is loading and the
\* last message is an assistant message that is not streaming and whose
\* content has a character that is not whitespace; every suggestion shown is
\* one of the suggestions of that last message.
C18_SuggestionsDisplay ==
    /\ SuggestionsArea.shown
       => /\ ~isLoading
          /\ messages # <<>>
          /\ messages[Len(messages)].role = "assistant"
          /\ ~messages[Len(messages)].isStreaming
          /\ Tokens(messages[Len(messages)].content) \ {" ", "\n"} # {}
    /\ SuggestionsArea.items # <<>>
       => /\ SuggestionsArea.shown
          /\ messages[Len(messages)].suggestions = Some(SuggestionsArea.items)

\* C18 witness: the stream delivered suggestions and ended, the send has
\* finished, and the suggestions of the last message are shown.
C18_Witness ==
    /\ SuggestionsArea.shown
    /\ SuggestionsArea.items = <<"q1">>
    /\ \E s \in SendIds : sends[s].pc = "done" /\ messages[Len(messages)].id = sends[s].msg

\* C19: a watcher step that applies one JSON payload matching no typed
\* branch (explanation with content, status, error, suggestions, done) takes
\* the first non-empty of choices[0].delta.content, content, delta.content,
\* text, message, reply, appends it to the buffer and shows the buffer as
\* content; when all are empty the message is unchanged. In both components.
Unmatched(c) ==
    /\ c.form = "json"
    /\ ~IsExplanation(c)
    /\ c.type \notin {"status", "error", "suggestions", "done"}

FirstNonEmpty(fields) ==
    IF \E i \in DOMAIN fields : fields[i] # NoText
    THEN fields[CHOOSE i \in DOMAIN fields :
                   fields[i] # NoText /\ \A j \in 1..(i - 1) : fields[j] = NoText]
    ELSE NoText

LegacyFields(c) == <<c.choices, c.content, c.delta, c.text, c.message, c.reply>>

C19_LegacyFallback ==
    [][\A s \in SendIds :
          LET ev == StepEvents(s)
              text == FirstNonEmpty(LegacyFields(ev[1]))
          IN
          (Len(ev) = 1 /\ Unmatched(ev[1]) /\ Survives(s))
          => IF text # NoText
             THEN /\ sends'[s].contentBuffer = sends[s].contentBuffer \o text
                  /\ Msg(messages', sends[s].msg).content = sends'[s].contentBuffer
             ELSE Msg(messages', sends[s].msg) = InFlight(s)]_vars

C21_RawTextLikeContentDelta ==
    [][\A s \in SendIds :
          LET ev == StepEvents(s) IN
          (Len(ev) = 1 /\ IsRawText(ev[1]) /\ Survives(s))
          => /\ sends'[s].contentBuffer = sends[s].contentBuffer \o ev[1].raw
             /\ Msg(messages', sends[s].msg) =
                   [InFlight(s) EXCEPT
                       !.content = sends[s].contentBuffer \o ev[1].raw,
                       !.thinkingStatus = IF @ = "start" THEN "thinking" ELSE @]]_vars

\* ------------------------------------------------------------ block runs
\* In a "block" run the code is a sequence of lexical tokens: a punctuation
\* character, a whitespace token (" " for a run of blanks, "\n"), or a word (a
\* maximal run of word characters: an identifier or a number). Two words are
\* never adjacent, so every word has a word boundary on both sides.
Punctuation == {"{", "}", "[", "]", ":", ",", ";", "=", "'", "\"", "\\", "|"}
Numbers == {"1", "2", "25", "30", "35", "100"}
IsWord(tok) == tok \notin Punctuation \cup Whitespace
\* [a-zA-Z_$][a-zA-Z0-9_$]*
IsIdentifier(tok) == IsWord(tok) /\ tok \notin Numbers

\* the index of the first token at or behind i that is not whitespace
\* (Len(t) + 1: none)
RECURSIVE SkipSpace(_, _)
SkipSpace(t, i) ==
    IF i <= Len(t) /\ t[i] \in Whitespace THEN SkipSpace(t, i + 1) ELSE i

\* the index of the last token at or before i that is not whitespace (0: none)
RECURSIVE SkipSpaceBack(_, _)
SkipSpaceBack(t, i) ==
    IF i >= 1 /\ t[i] \in Whitespace THEN SkipSpaceBack(t, i - 1) ELSE i

\* option\s*=\s* matches at i: the index behind the match (0: no match)
AssignmentAt(t, i) ==
    IF i <= Len(t) /\ t[i] = "option"
    THEN LET e == SkipSpace(t, i + 1) IN
         IF e <= Len(t) /\ t[e] = "=" THEN SkipSpace(t, e + 1) ELSE 0
    ELSE 0

\* ------------------------------------------------------------ JSON.parse
\* A parsed JSON value: kind "obj" (keys[i] has the value items[i]), "arr"
\* (items), "str" (text), "num" / "lit" (text is the one token); NullNode is
\* the null that parseTableOption returns.
Node(kind, text, keys, items) == [kind |-> kind, text |-> text, keys |-> keys, items |-> items]
NullNode == Node("null", <<>>, <<>>, <<>>)
ParseError == [ok |-> FALSE, node |-> NullNode, next |-> 0]
Parsed(node, next) == [ok |-> TRUE, node |-> node, next |-> next]

\* a JSON string that opens at i (t[i] is the double quote): no raw line break
\* inside; escapes are not modelled, a backslash fails
ParseString(t, i) ==
    IF \E j \in (i + 1)..Len(t) : t[j] = "\""
    THEN LET j == CHOOSE j \in (i + 1)..Len(t) :
                      t[j] = "\"" /\ \A k \in (i + 1)..(j - 1) : t[k] # "\""
             text == SubSeq(t, i + 1, j - 1)
         IN IF \E k \in DOMAIN text : text[k] \in {"\n", "\\"}
            THEN ParseError ELSE Parsed(Node("str", text, <<>>, <<>>), j + 1)
    ELSE ParseError

RECURSIVE ParseValue(_, _)
RECURSIVE ParseMembers(_, _, _, _)
RECURSIVE ParseElements(_, _, _)

\* the members of an object from i on, behind "{" or ","
ParseMembers(t, i, keys, items) ==
    LET k == SkipSpace(t, i) IN
    IF k > Len(t) \/ t[k] # "\"" THEN ParseError
    ELSE LET key == ParseString(t, k) IN
         IF ~key.ok THEN ParseError
         ELSE LET c == SkipSpace(t, key.next) IN
              IF c > Len(t) \/ t[c] # ":" THEN ParseError
              ELSE LET v == ParseValue(t, c + 1) IN
                   IF ~v.ok THEN ParseError
                   ELSE LET e == SkipSpace(t, v.next)
                            ks == Append(keys, key.node.text)
                            vs == Append(items, v.node)
                        IN IF e > Len(t) THEN ParseError
                           ELSE IF t[e] = "," THEN ParseMembers(t, e + 1, ks, vs)
                           ELSE IF t[e] = "}" THEN Parsed(Node("obj", <<>>, ks, vs), e + 1)
                           ELSE ParseError

\* the elements of an array from i on, behind "[" or ","
ParseElements(t, i, items) ==
    LET v == ParseValue(t, i) IN
    IF ~v.ok THEN ParseError
    ELSE LET e == SkipSpace(t, v.next)
             vs == Append(items, v.node)
         IN IF e > Len(t) THEN ParseError
            ELSE IF t[e] = "," THEN ParseElements(t, e + 1, vs)
            ELSE IF t[e] = "]" THEN Parsed(Node("arr", <<>>, <<>>, vs), e + 1)
            ELSE ParseError

ParseValue(t, i) ==
    LET k == SkipSpace(t, i) IN
    IF k > Len(t) THEN ParseError
    ELSE IF t[k] = "{" THEN
        LET e == SkipSpace(t, k + 1) IN
        IF e <= Len(t) /\ t[e] = "}" THEN Parsed(Node("obj", <<>>, <<>>, <<>>), e + 1)
        ELSE ParseMembers(t, k + 1, <<>>, <<>>)
    ELSE IF t[k] = "[" THEN
        LET e == SkipSpace(t, k + 1) IN
        IF e <= Len(t) /\ t[e] = "]" THEN Parsed(Node("arr", <<>>, <<>>, <<>>), e + 1)
        ELSE ParseElements(t, k + 1, <<>>)
    ELSE IF t[k] = "\"" THEN ParseString(t, k)
    ELSE IF t[k] \in Numbers THEN Parsed(Node("num", <<t[k]>>, <<>>, <<>>), k + 1)
    ELSE IF t[k] \in {"true", "false", "null"} THEN Parsed(Node("lit", <<t[k]>>, <<>>, <<>>), k + 1)
    ELSE ParseError

\* JSON.parse(text): one value and nothing but whitespace behind it; a syntax
\* error is ParseError
JsonParse(t) ==
    LET v == ParseValue(t, 1) IN
    IF v.ok /\ SkipSpace(t, v.next) > Len(t) THEN v ELSE ParseError

\* ------------------------------------------------- parseTableOption
\* str.replace(/^option\s*=\s*/, '')
StripAssignment(str) ==
    IF AssignmentAt(str, 1) # 0 THEN SubSeq(str, AssignmentAt(str, 1), Len(str)) ELSE str

\* .replace(/;\s*$/, ''): the last semicolon when only whitespace follows it
StripSemicolon(str) ==
    LET j == SkipSpaceBack(str, Len(str)) IN
    IF j >= 1 /\ str[j] = ";" THEN SubSeq(str, 1, j - 1) ELSE str

\* \bNone\b -> null, \bTrue\b -> true, \bFalse\b -> false, anywhere
PythonLiterals(str) ==
    [i \in DOMAIN str |->
        CASE str[i] = "None" -> "null"
          [] str[i] = "True" -> "true"
          [] str[i] = "False" -> "false"
          [] OTHER -> str[i]]

\* the text made of the pieces lo..hi, each the replacement of one token
RECURSIVE Pieces(_, _, _)
Pieces(pieces, lo, hi) ==
    IF lo > hi THEN <<>>
    ELSE IF lo = hi THEN pieces[lo]
    ELSE LET mid == (lo + hi) \div 2
         IN Pieces(pieces, lo, mid) \o Pieces(pieces, mid + 1, hi)

\* /,(\s*[}\]])/g -> $1: one pass, anywhere
TrailingCommas(str) ==
    LET Dropped(i) ==
            LET e == SkipSpace(str, i + 1) IN
            str[i] = "," /\ e <= Len(str) /\ str[e] \in {"}", "]"}
    IN Pieces([i \in DOMAIN str |-> IF Dropped(i) THEN <<>> ELSE <<str[i]>>], 1, Len(str))

\* /'/g -> "
MutDoubleQuotes(str) == str

DoubleQuotes(str) == [i \in DOMAIN str |-> IF str[i] = "'" THEN "\"" ELSE str[i]]

\* /([{,]\s*|^\s*)([a-zA-Z_$][a-zA-Z0-9_$]*)\s*:/gm matches the identifier
\* at i: a colon follows it and "{", "," or a line start precedes it, with
\* nothing but whitespace in between
KeyAt(str, i) ==
    /\ IsIdentifier(str[i])
    /\ LET c == SkipSpace(str, i + 1) IN c <= Len(str) /\ str[c] = ":"
    /\ LET b == SkipSpaceBack(str, i - 1) IN
           \/ b = 0
           \/ str[b] \in {"{", ","}
           \/ \E k \in (b + 1)..(i - 1) : str[k] = "\n"

\* -> $1"$2": the identifier gets its quotes and the whitespace between it
\* and its colon goes
QuoteKeys(str) ==
    LET Swallowed(i) ==
            /\ str[i] \in Whitespace
            /\ SkipSpaceBack(str, i) >= 1
            /\ KeyAt(str, SkipSpaceBack(str, i))
    IN Pieces([i \in DOMAIN str |->
                  IF KeyAt(str, i) THEN <<"\"", str[i], "\"">>
                  ELSE IF Swallowed(i) THEN <<>>
                  ELSE <<str[i]>>], 1, Len(str))

\* the text handed to JSON.parse
JsonStr(cleanedStr) ==
    QuoteKeys(DoubleQuotes(TrailingCommas(PythonLiterals(cleanedStr))))

MutParseTableOption(str) ==
    LET parsed == JsonParse(JsonStr(StripSemicolon(StripAssignment(str))))
    IN IF parsed.ok THEN parsed.node ELSE NullNode
ParseTableOption(str) ==
    LET cleanedStr == StripSemicolon(StripAssignment(str)) IN
    IF ~IsCompleteJSON(cleanedStr) THEN NullNode
    ELSE LET parsed == JsonParse(JsonStr(cleanedStr))
         IN IF parsed.ok THEN parsed.node ELSE NullNode

\* CChart.vue carries its own copy of the function: the text handed to
\* JSON.parse, and parseChartOption
ChartJsonStr(cleanedStr) ==
    QuoteKeys(DoubleQuotes(TrailingCommas(PythonLiterals(cleanedStr))))

MutParseChartOption(str) ==
    LET cleanedStr == StripAssignment(str) IN
    IF ~ChartIsCompleteJSON(cleanedStr) THEN NullNode
    ELSE LET parsed == JsonParse(ChartJsonStr(cleanedStr))
         IN IF parsed.ok THEN parsed.node ELSE NullNode

ParseChartOption(str) ==
    LET cleanedStr == StripSemicolon(StripAssignment(str)) IN
    IF ~ChartIsCompleteJSON(cleanedStr) THEN NullNode
    ELSE LET parsed == JsonParse(ChartJsonStr(cleanedStr))
         IN IF parsed.ok THEN parsed.node ELSE NullNode

\* ------------------------------------------- parseTableData / parseChartData
\* code.match(/option\s*=\s*\{([\s\S]*)\}/)[0]: from the first `option = {`
\* that has a "}" behind it through the LAST "}" of the code; <<>> when there
\* is no match
Opens(text, p) ==
    LET b == AssignmentAt(text, p) IN
    /\ b # 0 /\ b <= Len(text) /\ text[b] = "{"
    /\ \E q \in (b + 1)..Len(text) : text[q] = "}"
MutConfigMatch(text) ==
    IF \E p \in DOMAIN text : Opens(text, p)
    THEN SubSeq(text, CHOOSE p \in DOMAIN text : Opens(text, p) /\ \A r \in 1..(p - 1) : ~Opens(text, r), Len(text))
    ELSE <<>>
ConfigMatch(text) ==
    IF \E p \in DOMAIN text : Opens(text, p)
    THEN LET p == CHOOSE p \in DOMAIN text : Opens(text, p) /\ \A r \in 1..(p - 1) : ~Opens(text, r)
             q == CHOOSE q \in DOMAIN text : text[q] = "}" /\ \A r \in (q + 1)..Len(text) : text[r] # "}"
         IN SubSeq(text, p, q)
    ELSE <<>>

\* obj.key of a parsed object (the last member of that name), NullNode when
\* absent
Get(obj, key) ==
    IF \E i \in DOMAIN obj.keys : obj.keys[i] = <<key>>
    THEN obj.items[CHOOSE i \in DOMAIN obj.keys :
                       obj.keys[i] = <<key>> /\ \A j \in (i + 1)..Len(obj.keys) : obj.keys[j] # <<key>>]
    ELSE NullNode

\* JavaScript truthiness of a parsed value
Truthy(node) ==
    CASE node.kind \in {"obj", "arr"} -> TRUE
      [] node.kind = "str" -> node.text # <<>>
      [] node.kind = "num" -> node.text # <<"0">>
      [] node.kind = "lit" -> node.text = <<"true">>
      [] OTHER -> FALSE

\* text.split(sep)
RECURSIVE Split(_, _)
Split(text, sep) ==
    IF \E j \in DOMAIN text : text[j] = sep
    THEN LET j == CHOOSE j \in DOMAIN text : text[j] = sep /\ \A k \in 1..(j - 1) : text[k] # sep
         IN <<SubSeq(text, 1, j - 1)>> \o Split(SubSeq(text, j + 1, Len(text)), sep)
    ELSE <<text>>

\* line.split('|').map(trim)
Cells(line) == LET parts == Split(line, "|") IN [i \in DOMAIN parts |-> Trim(parts[i])]

\* the legacy Markdown pipe table: the rows behind the header and the
\* separator line, one object per row keyed by the header cells
MarkdownTable(text) ==
    LET lines == SelectSeq(Split(Trim(text), "\n"), LAMBDA line : Trim(line) # <<>>) IN
    IF Len(lines) < 2 THEN NullNode
    ELSE IF \E i \in DOMAIN lines[1] : lines[1][i] = "|" THEN
        LET headers == SelectSeq(Cells(lines[1]), LAMBDA h : h # <<>>)
            dataLines == SubSeq(lines, 3, Len(lines))
            Row(line) ==
                LET values == SelectSeq(Cells(line), LAMBDA v : v # <<>>) IN
                Node("obj", <<>>, headers,
                     [i \in DOMAIN headers |->
                         Node("str", IF i <= Len(values) THEN values[i] ELSE <<>>, <<>>, <<>>)])
        IN IF Len(dataLines) > 0
           THEN Node("arr", <<>>, <<>>, [i \in DOMAIN dataLines |-> Row(dataLines[i])])
           ELSE NullNode
    ELSE NullNode

ParseTableData(text) ==
    LET config == IF ConfigMatch(text) # <<>> THEN ParseTableOption(ConfigMatch(text)) ELSE NullNode IN
    IF config # NullNode /\ Truthy(Get(config, "columns")) /\ Truthy(Get(config, "data"))
    THEN config
    ELSE MarkdownTable(text)

MutParseChartData(text) ==
    IF ConfigMatch(text) # <<>> THEN ParseChartOption(ConfigMatch(text)) ELSE NullNode
ParseChartData(text) ==
    LET config == IF ConfigMatch(text) # <<>> THEN ParseChartOption(ConfigMatch(text)) ELSE NullNode IN
    IF config # NullNode /\ Truthy(Get(config, "type")) THEN config ELSE NullNode

\* const tableConfig = computed(() => parseTableData(props.code)), and the
\* chart's
tableConfig == ParseTableData(code)
chartConfig == ParseChartData(code)

\* ---------------------------------------------------------- block run
\* The table block of exampleMarkdown, between its fences.
ExampleTable ==
    <<
    "option", " ", "=", " ", "{", "\n", " ", "columns", ":", " ", "[", "\n",
    " ", "{", "\n", " ", "label", ":", " ", "'", "Name", "'", ",", "\n",
    " ", "prop", ":", " ", "'", "name", "'", ",", "\n", " ", "width", ":",
    " ", "100", ",", "\n", " ", "}", ",", "\n", " ", "{", "\n", " ",
    "label", ":", " ", "'", "Age", "'", ",", "\n", " ", "prop", ":", " ",
    "'", "age", "'", ",", "\n", " ", "width", ":", " ", "100", ",", "\n",
    " ", "}", ",", "\n", " ", "{", "\n", " ", "label", ":", " ", "'",
    "City", "'", ",", "\n", " ", "prop", ":", " ", "'", "city", "'", ",",
    "\n", " ", "width", ":", " ", "100", ",", "\n", " ", "}", ",", "\n",
    " ", "]", ",", "\n", " ", "data", ":", " ", "[", "\n", " ", "{",
    "\n", " ", "name", ":", " ", "'", "John", "'", ",", "\n", " ", "age",
    ":", " ", "25", ",", "\n", " ", "city", ":", " ", "'", "New", " ",
    "York", "'", ",", "\n", " ", "}", ",", "\n", " ", "{", "\n", " ",
    "name", ":", " ", "'", "Jane", "'", ",", "\n", " ", "age", ":", " ",
    "30", ",", "\n", " ", "city", ":", " ", "'", "Los", " ", "Angeles", "'",
    ",", "\n", " ", "}", ",", "\n", " ", "{", "\n", " ", "name", ":",
    " ", "'", "Jim", "'", ",", "\n", " ", "age", ":", " ", "35", ",",
    "\n", " ", "city", ":", " ", "'", "Chicago", "'", ",", "\n", " ", "}",
    ",", "\n", " ", "]", ",", "\n", "}" >>

\* The object literal of the documented example block.
ExampleBlock ==
    <<"{", "columns", ":", "[", "{", "label", ":", "'", "Name", "'", ",",
      "prop", ":", "'", "name", "'", "}", "]", ",", " ",
      "data", ":", "[", "{", "name", ":", "'", "A", "'", "}", "]", "}">>
\* The object literals, what precedes them and what follows them in the
\* blocks a run streams, and a legacy pipe table.
Bodies == {
    ExampleBlock,
    <<"{", "type", ":", "'", "line", "'", "}">>,
    <<"{", "type", ":", "'", "bar", "'", ",", " ", "data", ":", "[", "1", ",", "]", ",", " ", "}">>,
    <<"{", "columns", ":", "[", "]", "}">>,
    <<"{", "columns", ":", "[", "{", "label", ":", "'", "True", "'", "}", "]", ",", " ", "data", ":", "[", "None", "]", "}">>,
    <<"{", "columns", ":", "[", "'", "a", ",", "]", "'", "]", ",", " ", "data", ":", "[", "'", ",", ",", "}", "'", "]", "}">>,
    <<"{", "columns", ":", " ", "x", "}">>,
    <<"{", "\"", "a", "\"", ":", "\"", "'", "}">>,
    <<"{", "\"", "columns", "\"", ":", "[", "1", "]", ",", "\"", "data", "\"", ":", "[", "1", "]", "}">>
}
Leads == {<<>>, <<"x", " ">>, <<"option", " ">>}
Assignments == {<<"option", " ", "=", " ">>, <<"option", "=">>, <<>>}
Tails == {<<>>, <<";">>, <<" ", "x">>, <<";", ";">>, <<"\n", "}">>}
PipeTable == <<"|", "a", "|", "b", "|", "\n", "|", "-", "|", "-", "|", "\n", "|", "1", "|", "2", "|">>
\* blocks with an apostrophe inside a double-quoted string value
Apostrophes == {
    <<"option", " ", "=", " ", "{", "type", ":", " ", "\"", "it", "'", "s", "\"", "}">>,
    <<"option", "=", "{", "a", ":", "\"", "'", ",", "b", ":", "'", "\"", "}">>
}
Documents ==
    {lead \o assign \o body \o tail :
        lead \in Leads, assign \in Assignments, body \in Bodies, tail \in Tails}
    \cup {ExampleTable, PipeTable} \cup Apostrophes
BlockTokens == UNION {{d[i] : i \in DOMAIN d} : d \in Documents}

InitBlock == run = "block" /\ Rendered

\* props.code grows by one token of the block being streamed
BlockArrives(tok) ==
    /\ run = "block"
    /\ \E d \in Documents :
          /\ Len(code) < Len(d)
          /\ d[Len(code) + 1] = tok
          /\ SubSeq(d, 1, Len(code)) = code
    /\ code' = Append(code, tok)
    /\ UNCHANGED <<run, component, list, messages, isLoading, streams, sends, nextId, delivered>>

NextBlock == \E tok \in BlockTokens : BlockArrives(tok)

SpecBlock == InitBlock /\ [][NextBlock]_vars

\* ------------------------------------------- scanner: claim vocabulary
\* the text without the whitespace around it
Visible(t) ==
    IF \A i \in DOMAIN t : t[i] \in {" ", "\n"} THEN <<>>
    ELSE LET a == CHOOSE i \in DOMAIN t :
                     t[i] \notin {" ", "\n"} /\ \A j \in 1..(i - 1) : t[j] \in {" ", "\n"}
             b == CHOOSE i \in DOMAIN t :
                     t[i] \notin {" ", "\n"} /\ \A j \in (i + 1)..Len(t) : t[j] \in {" ", "\n"}
         IN SubSeq(t, a, b)

\* the character at j is escaped: an odd number of backslashes runs up to it
Escaped(t, j) ==
    LET n == CHOOSE n \in 0..(j - 1) :
                 /\ \A i \in (j - n)..(j - 1) : t[i] = "\\"
                 /\ (n = j - 1 \/ t[j - n - 1] # "\\")
    IN n % 2 = 1

\* the quote of the string literal open after the first k characters ("":
\* none): an unescaped quote opens a string, the next unescaped quote of the
\* same type closes it
RECURSIVE OpenQuote(_, _)
OpenQuote(t, k) ==
    IF k = 0 THEN ""
    ELSE LET q == OpenQuote(t, k - 1) IN
         IF Escaped(t, k) \/ t[k] \notin {"\"", "'"} THEN q
         ELSE IF q = "" THEN t[k]
         ELSE IF q = t[k] THEN "" ELSE q

\* the braces of a kind among the first k characters that count: unescaped
\* and outside string literals
Braces(t, k, b) ==
    {j \in 1..k : t[j] = b /\ ~Escaped(t, j) /\ OpenQuote(t, j) = ""}

Depth(t, k) == Cardinality(Braces(t, k, "{")) - Cardinality(Braces(t, k, "}"))

\* the positions at which the depth is back at 0
Closings(t) == {k \in DOMAIN t : Depth(t, k) = 0}

FirstClosing(t) == CHOOSE k \in Closings(t) : \A j \in Closings(t) : k <= j

\* a balanced, string-aware object literal: opens with {, and its depth is
\* back at 0 at its last character and nowhere before
Balanced(t) ==
    /\ t # <<>> /\ t[1] = "{"
    /\ Closings(t) = {Len(t)}

\* C22: isCompleteJSON is false for every text whose trimmed form does not
\* start with {, the empty and the whitespace-only text included.
C22_NotObjectIsIncomplete ==
    (Visible(code) = <<>> \/ Visible(code)[1] # "{") => ~IsCompleteJSON(code)

\* C22 witness: a text that holds a balanced object behind another character.
C22_Witness ==
    /\ code = <<" ", "a", "{", "}">>
    /\ ~IsCompleteJSON(code)

\* C23: isCompleteJSON is true for every balanced, string-aware object
\* literal and false for each of its strict non-empty prefixes.
C23_BalancedIsComplete ==
    Balanced(code)
    => /\ IsCompleteJSON(code)
       /\ \A k \in 1..(Len(code) - 1) : ~IsCompleteJSON(SubSeq(code, 1, k))

\* C23 witness: the literal {"}"}, with a closing brace inside a string.
C23_Witness ==
    /\ code = <<"{", "\"", "}", "\"", "}">>
    /\ Balanced(code)
    /\ IsCompleteJSON(code)

C25_StringAwareDepth ==
    LET t == Visible(code) IN
    (t # <<>> /\ t[1] = "{")
    => \A k \in 0..Len(t) :
          IF Scan(t, k).returned
          THEN Closings(t) # {} /\ FirstClosing(t) <= k
          ELSE /\ Scan(t, k).braceCount = Depth(t, k)
               /\ Scan(t, k).inString = (OpenQuote(t, k) # "")
               /\ Scan(t, k).stringChar = OpenQuote(t, k)
               /\ Closings(t) \cap 1..k = {}

\* C25 witness: in {"\\" the escaped backslash is followed by the quote that
\* closes the string; in the state reached the scanner is outside a string
\* at depth 1.
C25_Witness ==
    /\ code = <<"{", "\"", "\\", "\\", "\"">>
    /\ ~Scan(code, 5).inString
    /\ Scan(code, 4).inString
    /\ Scan(code, 5).braceCount = 1

\* ------------------------------------------- extractor: claim vocabulary
\* `option`, optional whitespace, `=`, optional whitespace, `{` starts at p
\* and has its brace at b
PatternAt(t, p, b) ==
    /\ t[p] = "option" /\ t[b] = "{"
    /\ \E e \in (p + 1)..(b - 1) :
          /\ t[e] = "="
          /\ \A i \in ((p + 1)..(b - 1)) \ {e} : t[i] \in {" ", "\n"}

\* the positions at which the pattern starts
Patterns(t) == {p \in DOMAIN t : t[p] = "option" /\ \E b \in (p + 1)..Len(t) : PatternAt(t, p, b)}

\* the positions at which the pattern starts with a closing brace somewhere
\* behind its opening brace
ClosedPatterns(t) ==
    {p \in DOMAIN t : t[p] = "option" /\ \E b \in (p + 1)..Len(t) :
        PatternAt(t, p, b) /\ \E q \in (b + 1)..Len(t) : t[q] = "}"}

Least(S) == CHOOSE n \in S : \A m \in S : n <= m

\* the position of the last closing brace of the text (0: none)
LastBrace(t) ==
    IF \E q \in DOMAIN t : t[q] = "}"
    THEN CHOOSE q \in DOMAIN t : t[q] = "}" /\ \A r \in (q + 1)..Len(t) : t[r] # "}"
    ELSE 0

\* the text has something other than whitespace and semicolons behind the
\* brace that closes the object of its first pattern
TrailingText(t) ==
    /\ Patterns(t) # {}
    /\ LET p == Least(Patterns(t))
           b == CHOOSE b \in (p + 1)..Len(t) : PatternAt(t, p, b)
           rest == SubSeq(t, b, Len(t))
       IN /\ Closings(rest) # {}
          /\ \E i \in (FirstClosing(rest) + 1)..Len(rest) : rest[i] \notin {" ", "\n", ";"}

\* C26 as stated: the extracted text runs from the first `option = {` through
\* the end of the text, it is missing exactly when the pattern occurs nowhere,
\* and a block with trailing text behind its closing brace yields no
\* structured block.
C26_TailToEndOfText ==
    /\ ConfigMatch(code) = <<>> <=> Patterns(code) = {}
    /\ Patterns(code) # {}
       => ConfigMatch(code) = SubSeq(code, Least(Patterns(code)), Len(code))
    /\ TrailingText(code) => tableConfig = NullNode /\ chartConfig = NullNode

\* C26 (amended): the extracted text runs from the first `option = {` that has
\* a closing brace behind it through the LAST closing brace of the text, and
\* it is missing exactly when there is no such pattern; what follows the last
\* closing brace is cut off and does not change the chart's structured block.
C26_TailToLastBrace ==
    /\ ConfigMatch(code) = <<>> <=> ClosedPatterns(code) = {}
    /\ ClosedPatterns(code) # {}
       => /\ ConfigMatch(code) = SubSeq(code, Least(ClosedPatterns(code)), LastBrace(code))
          /\ chartConfig = ParseChartData(SubSeq(code, 1, LastBrace(code)))

\* C26 witness: a complete table block followed by the text " x" is cut at
\* its closing brace and yields its configuration.
C26_Witness ==
    /\ component = "CTable"
    /\ Len(code) > 2 /\ SubSeq(code, Len(code) - 1, Len(code)) = <<" ", "x">>
    /\ TrailingText(code)
    /\ ConfigMatch(code) = SubSeq(code, Least(ClosedPatterns(code)), Len(code) - 2)
    /\ tableConfig.kind = "obj"

\* C27: parseTableOption / parseChartOption, on the code and on the text
\* extracted from it, return a parsed object or null, and null whenever the
\* text left after stripping `option =` and the trailing `;` is incomplete for
\* the scanner or its normalised form is not strict JSON.
C27_NullOnIncompleteOrInvalid ==
    \A str \in {code, ConfigMatch(code)} :
        LET cleanedStr == StripSemicolon(StripAssignment(str)) IN
        /\ ParseTableOption(str) = NullNode \/ ParseTableOption(str).kind = "obj"
        /\ ~IsCompleteJSON(cleanedStr) => ParseTableOption(str) = NullNode
        /\ ~JsonParse(JsonStr(cleanedStr)).ok => ParseTableOption(str) = NullNode
        /\ ParseChartOption(str) = NullNode \/ ParseChartOption(str).kind = "obj"
        /\ ~IsCompleteJSON(cleanedStr) => ParseChartOption(str) = NullNode
        /\ ~JsonParse(JsonStr(cleanedStr)).ok => ParseChartOption(str) = NullNode

\* C27 witness: {"a":"'} is incomplete for the scanner (the apostrophe is
\* inside an open string) although its normalised form {"a":""} is strict
\* JSON; the result is null.
C27_Witness ==
    /\ code = <<"{", "\"", "a", "\"", ":", "\"", "'", "}">>
    /\ ~IsCompleteJSON(code)
    /\ JsonParse(JsonStr(code)).ok
    /\ ParseTableOption(code) = NullNode

\* ------------------------------------------ normalizer: claim vocabulary
\* What a loose literal denotes, read with its string literals respected:
\* keys are identifiers or quoted strings, strings are quoted with either
\* quote and taken verbatim, a comma may precede a closing bracket, and
\* None / True / False stand for null / true / false.
LooseString(t, i) ==
    IF \E j \in (i + 1)..Len(t) : t[j] = t[i]
    THEN LET j == CHOOSE j \in (i + 1)..Len(t) :
                      t[j] = t[i] /\ \A k \in (i + 1)..(j - 1) : t[k] # t[i]
             text == SubSeq(t, i + 1, j - 1)
         IN IF \E k \in DOMAIN text : text[k] \in {"\n", "\\"}
            THEN ParseError ELSE Parsed(Node("str", text, <<>>, <<>>), j + 1)
    ELSE ParseError

LooseLiteral(tok) ==
    CASE tok \in {"None", "null"} -> "null"
      [] tok \in {"True", "true"} -> "true"
      [] OTHER -> "false"

RECURSIVE LooseValue(_, _)
RECURSIVE LooseMembers(_, _, _, _)
RECURSIVE LooseElements(_, _, _)

LooseMembers(t, i, keys, items) ==
    LET k == SkipSpace(t, i) IN
    IF k > Len(t) THEN ParseError
    ELSE IF t[k] = "}" /\ keys # <<>> THEN Parsed(Node("obj", <<>>, keys, items), k + 1)
    ELSE LET key == IF t[k] \in {"'", "\""} THEN LooseString(t, k)
                    ELSE IF IsIdentifier(t[k]) THEN Parsed(Node("str", <<t[k]>>, <<>>, <<>>), k + 1)
                    ELSE ParseError
         IN IF ~key.ok THEN ParseError
            ELSE LET c == SkipSpace(t, key.next) IN
                 IF c > Len(t) \/ t[c] # ":" THEN ParseError
                 ELSE LET v == LooseValue(t, c + 1) IN
                      IF ~v.ok THEN ParseError
                      ELSE LET e == SkipSpace(t, v.next)
                               ks == Append(keys, key.node.text)
                               vs == Append(items, v.node)
                           IN IF e > Len(t) THEN ParseError
                              ELSE IF t[e] = "," THEN LooseMembers(t, e + 1, ks, vs)
                              ELSE IF t[e] = "}" THEN Parsed(Node("obj", <<>>, ks, vs), e + 1)
                              ELSE ParseError

LooseElements(t, i, items) ==
    LET k == SkipSpace(t, i) IN
    IF k > Len(t) THEN ParseError
    ELSE IF t[k] = "]" /\ items # <<>> THEN Parsed(Node("arr", <<>>, <<>>, items), k + 1)
    ELSE LET v == LooseValue(t, k) IN
         IF ~v.ok THEN ParseError
         ELSE LET e == SkipSpace(t, v.next)
                  vs == Append(items, v.node)
              IN IF e > Len(t) THEN ParseError
                 ELSE IF t[e] = "," THEN LooseElements(t, e + 1, vs)
                 ELSE IF t[e] = "]" THEN Parsed(Node("arr", <<>>, <<>>, vs), e + 1)
                 ELSE ParseError

LooseValue(t, i) ==
    LET k == SkipSpace(t, i) IN
    IF k > Len(t) THEN ParseError
    ELSE IF t[k] = "{" THEN
        LET e == SkipSpace(t, k + 1) IN
        IF e <= Len(t) /\ t[e] = "}" THEN Parsed(Node("obj", <<>>, <<>>, <<>>), e + 1)
        ELSE LooseMembers(t, k + 1, <<>>, <<>>)
    ELSE IF t[k] = "[" THEN
        LET e == SkipSpace(t, k + 1) IN
        IF e <= Len(t) /\ t[e] = "]" THEN Parsed(Node("arr", <<>>, <<>>, <<>>), e + 1)
        ELSE LooseElements(t, k + 1, <<>>)
    ELSE IF t[k] \in {"'", "\""} THEN LooseString(t, k)
    ELSE IF t[k] \in Numbers THEN Parsed(Node("num", <<t[k]>>, <<>>, <<>>), k + 1)
    ELSE IF t[k] \in {"None", "True", "False", "null", "true", "false"}
         THEN Parsed(Node("lit", <<LooseLiteral(t[k])>>, <<>>, <<>>), k + 1)
    ELSE ParseError

\* the object a complete, well-formed block denotes: `option = ` and a loose
\* object literal with at most whitespace and one semicolon behind it
\* (NullNode: the code is not such a block)
Denoted(t) ==
    IF Patterns(t) = {} THEN NullNode
    ELSE LET p == Least(Patterns(t))
             b == CHOOSE b \in (p + 1)..Len(t) : PatternAt(t, p, b)
             v == LooseValue(t, b)
         IN IF /\ v.ok
               /\ \A i \in v.next..Len(t) : t[i] \in {" ", "\n", ";"}
               /\ Cardinality({i \in v.next..Len(t) : t[i] = ";"}) <= 1
            THEN v.node ELSE NullNode

\* the text of every string value of a parsed value
RECURSIVE Strings(_)
Strings(node) ==
    IF node.kind = "str" THEN {node.text}
    ELSE UNION {Strings(node.items[i]) : i \in DOMAIN node.items}

\* a string value the rewriting of the normalizer leaves alone
PlainString(text) ==
    \A i \in DOMAIN text :
        text[i] \notin {"None", "True", "False", "'", "\"", ",", ":"}

\* C28: extraction followed by normalization of a complete, well-formed
\* loose-literal block yields the object the block denotes, with the same keys
\* and values.
C28_RoundTrip ==
    Denoted(code) # NullNode => ParseTableOption(ConfigMatch(code)) = Denoted(code)

\* C28, restricted to blocks whose string values hold none of None, True,
\* False, a quote, a comma or a colon.
C28_RoundTripOfPlainStrings ==
    (Denoted(code) # NullNode /\ \A text \in Strings(Denoted(code)) : PlainString(text))
    => ParseTableOption(ConfigMatch(code)) = Denoted(code)

\* C28, the two blocks it names: the one-column table and the table block of
\* exampleMarkdown, with 3 columns and 3 data rows.
C28_Examples ==
    LET Str(text) == Node("str", text, <<>>, <<>>)
        Obj(keys, items) == Node("obj", <<>>, keys, items)
        Arr(items) == Node("arr", <<>>, <<>>, items)
    IN /\ code = <<"option", " ", "=", " ">> \o ExampleBlock
          => tableConfig =
                Obj(<<(<<"columns">>), (<<"data">>)>>,
                    <<Arr(<<Obj(<<(<<"label">>), (<<"prop">>)>>, <<Str(<<"Name">>), Str(<<"name">>)>>)>>),
                      Arr(<<Obj(<<(<<"name">>)>>, <<Str(<<"A">>)>>)>>)>>)
       /\ code = ExampleTable
          => /\ tableConfig.kind = "obj"
             /\ tableConfig = Denoted(code)
             /\ Len(Get(tableConfig, "columns").items) = 3
             /\ Len(Get(tableConfig, "data").items) = 3
             /\ Get(Get(tableConfig, "data").items[1], "city") = Str(<<"New", " ", "York">>)

\* JSON.stringify(o): the strict JSON text of a parsed value
RECURSIVE Stringify(_)
RECURSIVE StringifyItems(_, _)
StringifyItems(node, i) ==
    IF i > Len(node.items) THEN <<>>
    ELSE (IF i > 1 THEN <<",">> ELSE <<>>)
         \o (IF node.kind = "obj" THEN <<"\"">> \o node.keys[i] \o <<"\"", ":">> ELSE <<>>)
         \o Stringify(node.items[i])
         \o StringifyItems(node, i + 1)
Stringify(node) ==
    CASE node.kind = "obj" -> <<"{">> \o StringifyItems(node, 1) \o <<"}">>
      [] node.kind = "arr" -> <<"[">> \o StringifyItems(node, 1) \o <<"]">>
      [] node.kind = "str" -> <<"\"">> \o node.text \o <<"\"">>
      [] OTHER -> node.text

\* C29: whenever parseTableOption returns an object for the code or for the
\* text extracted from it, the strict JSON text of that object is normalised
\* to an equal object again.
C29_Idempotent ==
    \A str \in {code, ConfigMatch(code)} :
        ParseTableOption(str) # NullNode
        => ParseTableOption(Stringify(ParseTableOption(str))) = ParseTableOption(str)

\* C29, restricted to objects whose string values hold none of None, True,
\* False, a quote, a comma or a colon.
C29_IdempotentOnPlainStrings ==
    \A str \in {code, ConfigMatch(code)} :
        (ParseTableOption(str) # NullNode
         /\ \A text \in Strings(ParseTableOption(str)) : PlainString(text))
        => ParseTableOption(Stringify(ParseTableOption(str))) = ParseTableOption(str)

\* ------------------------------------------- validation: claim vocabulary
\* the parsed object has a member of that name
Has(obj, key) == \E i \in DOMAIN obj.keys : obj.keys[i] = <<key>>

Deltas(events) == SelectSeq(events, IsDelta)

\* C31: a watcher step appends to the content buffer the texts of the content
\* deltas it applies, in order, and nothing else; no other step of a running
\* send touches the buffer. When the last event of the step is a content delta,
\* the content of the in-flight message is the concatenation of the texts of
\* all the deltas applied so far, whatever status, error, suggestions or
\* terminal events came in between.
C31_BufferIsDeltasInOrder ==
    [][\A s \in SendIds :
          LET ev == StepEvents(s) IN
          sends'[s].watching
          => /\ sends'[s].contentBuffer = sends[s].contentBuffer \o Concat(Deltas(ev))
             /\ (ev # <<>> /\ IsDelta(ev[Len(ev)]) /\ Survives(s))
                => /\ Msg(messages', sends[s].msg).content = sends'[s].contentBuffer
                   /\ sends'[s].contentBuffer = Concat(Deltas(sends'[s].applied))]_vars

\* C31 witness: a delta, an error event that replaced the content, and another
\* delta were applied; the content is the two delta texts.
C31_Witness ==
    \E s \in SendIds :
        /\ sends[s].watching /\ HasMsg(s)
        /\ Len(sends[s].applied) = 3
        /\ IsDelta(sends[s].applied[1])
        /\ IsErrorEvent(sends[s].applied[2])
        /\ IsDelta(sends[s].applied[3])
        /\ InFlight(s).content = DeltaText(sends[s].applied[1]) \o DeltaText(sends[s].applied[3])
        /\ sends[s].contentBuffer = InFlight(s).content

\* C32: when every send started has finished (its call has returned and
\* isLoading is false again), no message of the list is still marked as
\* streaming.
C32_NoStreamingAfterFinish ==
    (sends # <<>> /\ ~isLoading /\ \A s \in SendIds : sends[s].pc = "done")
    => \A i \in DOMAIN messages : ~messages[i].isStreaming

\* C34: the loop of the Chatbot.vue watcher and the loop of the App.vue watcher,
\* started from a fresh placeholder and run over the same payloads, give a
\* message with the same content, thinkingStatus, statusContent, suggestions
\* and isStreaming after every payload.
C34_ReducersEquivalent ==
    \A s \in SendIds :
        \A n \in 0..Len(sends[s].applied) :
            LET data == SubSeq(sends[s].applied, 1, n)
                a == WatchLoop("Chatbot", Placeholder(0), TRUE, NoText, data, 1).msg
                b == WatchLoop("App", Placeholder(0), TRUE, NoText, data, 1).msg
            IN /\ a.content = b.content
               /\ a.thinkingStatus = b.thinkingStatus
               /\ a.statusContent = b.statusContent
               /\ a.suggestions = b.suggestions
               /\ a.isStreaming = b.isStreaming

\* C35: while the code of a block grows by appending, a table or chart
\* configuration that is not null stays what it is: when the code before the
\* last token arrived gave a configuration, the code with that token gives
\* the same one.
C35_RenderedStaysRendered ==
    code # <<>> =>
        LET before == SubSeq(code, 1, Len(code) - 1) IN
        /\ ParseTableData(before) # NullNode
           => ParseTableData(code) = ParseTableData(before)
        /\ ParseChartData(before) # NullNode
           => ParseChartData(code) = ParseChartData(before)

\* C36: a complete, well-formed block with an apostrophe inside a
\* double-quoted string value passes the scanner, and the normalizer gives
\* null or an object that is not the one the block denotes; neither the table
\* nor the chart gets the denoted object.
C36_ApostropheCorrupted ==
    (Denoted(code) # NullNode /\ \E text \in Strings(Denoted(code)) : \E i \in DOMAIN text : text[i] = "'")
    => /\ IsCompleteJSON(StripSemicolon(StripAssignment(ConfigMatch(code))))
       /\ ParseTableOption(ConfigMatch(code)) # Denoted(code)
       /\ ParseChartOption(ConfigMatch(code)) # Denoted(code)
       /\ tableConfig # Denoted(code)
       /\ chartConfig # Denoted(code)

\* C36 witness: {type: "it's"} is complete for the scanner and normalised to
\* null; {a:"',b:'"} is normalised to an object with two empty strings.
C36_Witness ==
    \/ /\ code = <<"option", " ", "=", " ", "{", "type", ":", " ", "\"", "it", "'", "s", "\"", "}">>
       /\ IsCompleteJSON(StripAssignment(code))
       /\ Get(Denoted(code), "type").text = <<"it", "'", "s">>
       /\ ParseTableOption(code) = NullNode
       /\ chartConfig = NullNode
    \/ /\ code = <<"option", "=", "{", "a", ":", "\"", "'", ",", "b", ":", "'", "\"", "}">>
       /\ Get(Denoted(code), "a").text = <<"'", ",", "b", ":", "'">>
       /\ ParseTableOption(code).kind = "obj"
       /\ Get(ParseTableOption(code), "a").text = <<>>
       /\ Get(ParseTableOption(code), "b").text = <<>>

\* C37: the scanner and the normalizer of CTable and those of CChart agree:
\* on the code, on the text extracted from it and on that text without its
\* assignment and semicolon, isCompleteJSON gives the same boolean in both
\* components and parseTableOption and parseChartOption the same value.
C37_CopiesAgree ==
    \A str \in {code, ConfigMatch(code), StripSemicolon(StripAssignment(ConfigMatch(code))),
                StripAssignment(code)} :
        /\ IsCompleteJSON(str) = ChartIsCompleteJSON(str)
        /\ ParseTableOption(str) = ParseChartOption(str)

\* C37 witness: both copies accept a block and give the same object, and
\* both keep a semicolon out of the text they scan.
C37_Witness ==
    /\ \E n \in 1..Len(code) : code[n] = "}" /\ \A k \in (n + 1)..Len(code) : code[k] = ";"
    /\ code[Len(code)] = ";"
    /\ ConfigMatch(code) # <<>>
    /\ IsCompleteJSON(StripSemicolon(StripAssignment(code)))
    /\ ChartIsCompleteJSON(StripSemicolon(StripAssignment(code)))
    /\ ParseTableOption(code).kind = "obj"
    /\ ParseChartOption(code) = ParseTableOption(code)

\* C37, the scanners alone, on every text of scanner characters (escapes
\* included)
C37_ScannersAgree == IsCompleteJSON(code) = ChartIsCompleteJSON(code)

\* ---------------------------------------------- emits: claim vocabulary
\* the positions of an event in what a send has sent out
Positions(send, event) == {i \in DOMAIN send.emitted : send.emitted[i].event = event}

\* C38: in Chatbot.vue every send has emitted message-sent exactly once, with
\* a non-blank payload, as the first thing it sent out, before its request.
\* It has emitted message-received at most once, and only when it has
\* returned with its watcher stopped and had a stream opened; the step that
\* emits message-received ends the loading of the stream and its payload is
\* the content of the in-flight message at that moment. A send starts, and a
\* user message is pushed, only while isLoading is false.
C38_EmitsOrdered ==
    [][component = "Chatbot" =>
          /\ \A s \in 1..Len(sends') :
                LET send == sends'[s] IN
                /\ Cardinality(Positions(send, "message-sent")) = 1
                /\ send.emitted[1].event = "message-sent"
                /\ send.emitted[1].payload # NoText
                /\ send.emitted[2].event = "fetch"
                /\ Cardinality(Positions(send, "message-received")) <= 1
                /\ Positions(send, "message-received") # {}
                   => send.pc = "done" /\ ~send.watching /\ send.msg # 0
                /\ send.msg = 0 => Positions(send, "message-received") = {}
          /\ \A s \in SendIds :
                Len(sends'[s].emitted) > Len(sends[s].emitted)
                => /\ sends[s].pc = "stream"
                   /\ ~streams'[sends[s].stream].isLoading
                   /\ sends'[s].emitted =
                         Append(sends[s].emitted,
                                Emitted("message-received", Msg(messages, sends[s].msg).content))
          /\ isLoading
             => /\ Len(sends') = Len(sends)
                /\ \A m \in Ids(messages') \ Ids(messages) :
                      Msg(messages', m).role # "user"]_vars

\* C38 witness: a send has emitted message-sent, made its request and, its
\* stream over, emitted message-received with the status text its message
\* shows, while its content buffer is empty.
C38_Witness ==
    \E s \in SendIds :
        /\ component = "Chatbot"
        /\ Len(sends[s].emitted) = 3
        /\ sends[s].emitted[3].event = "message-received"
        /\ sends[s].emitted[3].payload # NoText
        /\ sends[s].emitted[3].payload = Msg(messages, sends[s].msg).content
        /\ sends[s].pc = "done"

\* C33: a step changes no message but the assistant message a send of its own
\* created: every message that is in the list before and after the step, and
\* is not the same after it, is the in-flight message of a send.
C33_OnlyOwnMessageModified ==
    [][\A id \in Ids(messages) \cap Ids(messages') :
          Msg(messages', id) # Msg(messages, id) => \E s \in SendIds : sends[s].msg = id]_vars

\* ------------------------------------- conversation list: claim vocabulary
Listing == {conversations[k] : k \in DOMAIN conversations}

\* C39: after every step currentConversationId is undefined or the id of a
\* conversation of the list, and when a deleteConversation(id) returns, id is
\* not in the list and is not the current conversation.
C39_CurrentIsListed ==
    [][/\ currentConversationId' = Undefined
          \/ \E k \in DOMAIN conversations' : conversations'[k] = currentConversationId'
       /\ \A i \in DOMAIN calls :
             DeleteCompletes(i)
             => /\ \A k \in DOMAIN conversations' : conversations'[k] # calls[i].id
                /\ currentConversationId' # calls[i].id
       /\ \A id \in ConversationIds :
             (DeleteConversation(id) /\ Len(calls') = Len(calls))
             => /\ \A k \in DOMAIN conversations' : conversations'[k] # id
                /\ currentConversationId' # id]_vars

\* C39, the first half at the moments no call is waiting
C39_CurrentIsListedAtRest ==
    calls = <<>> => (currentConversationId = Undefined \/ currentConversationId \in Listing)

\* C39, the second half alone
C39_DeletedIsGone ==
    [][\A i \in DOMAIN calls :
          DeleteCompletes(i)
          => calls[i].id \notin {conversations'[k] : k \in DOMAIN conversations'}
                                  \cup {currentConversationId'}]_vars

====
